---- MODULE Spec2Model ----
(***************************************************************************)
(* ImpactX agent: the event-to-report pipeline of                          *)
(* src/ImpactX_Agent/agent.js (processAgentTask, handleJiraPosting) with   *)
(* the collaborators of impactLogic.js and emailService.js.                *)
(*                                                                         *)
(* JavaScript values are encoded as follows.  An object or array that may  *)
(* be undefined/null is None (the empty tuple) or Some(v) (the one-tuple); *)
(* a scalar that may be undefined is the string Undefined, which is also   *)
(* what a template literal prints for it.  A text that is scanned by a     *)
(* regular expression is a sequence of one-character strings.              *)
(***************************************************************************)
EXTENDS Naturals, Sequences, FiniteSets, TLC

VARIABLES
    payload,     \* the webhook event handed to processAgentTask
    pc,          \* position of the invocation inside processAgentTask
    outcome,     \* "running", "skipped", "success" or "error"
    errKind,     \* the error that was thrown, "none" when none
    result,      \* the value returned: None or Some([status, risk, testCaseCount])
    config,      \* the config object built from process.env: None or Some(record)
    jiraKey,     \* the ticket key detected at agent.js:82, None when none
    jiraTicket,  \* the ticket context of getJiraTicket, None when null
    diff,        \* the raw diff text returned by getGitHubDiff
    tree,        \* the project tree of getGitHubTree, None when null
    analysis,    \* JSON.parse of the impact analysis: None or Some(value)
    testCases,   \* JSON.parse of the test cases: None or Some(value)
    comment,     \* the comment body composed by handleJiraPosting, None when none
    email,       \* the mail handed to transporter.sendMail, None when none
    calls,       \* the collaborator functions invoked so far, in order
    requests,    \* the network exchanges made so far, in order, with their status
    sync,        \* what the test-case synchronizer returned: None or Some(record)
    sinks,       \* how far the comment post and the synchronization have got
                 \* when they run side by side
    peer         \* the locals of a second invocation under way, suspended at
                 \* an await: None or Some(record)

vars == <<payload, pc, outcome, errKind, result, config, jiraKey, jiraTicket,
          diff, tree, analysis, testCases, comment, email, calls, requests, sync,
          sinks, peer>>

----------------------------------------------------------------------------
(* Encoding of optional values *)

None == <<>>
Some(v) == <<v>>
Undefined == "undefined"

\* JavaScript truthiness of a scalar that is a string or undefined.
Truthy(s) == s # Undefined /\ s # ""

\* x || d for a string x
OrElse(s, d) == IF Truthy(s) THEN s ELSE d

----------------------------------------------------------------------------
(* Texts and the ticket-key pattern /([A-Z]+-[0-9]+)/i *)

UpperLetters == {"A","B","C","D","E","F","G","H","I","J","K","L","M",
                 "N","O","P","Q","R","S","T","U","V","W","X","Y","Z"}
LowerLetters == {"a","b","c","d","e","f","g","h","i","j","k","l","m",
                 "n","o","p","q","r","s","t","u","v","w","x","y","z"}
Digits == {"0","1","2","3","4","5","6","7","8","9"}

\* [A-Z] under the i flag
IsLetter(c) == c \in UpperLetters \cup LowerLetters
IsDigit(c) == c \in Digits

UpperPairs == {<<"a","A">>, <<"b","B">>, <<"c","C">>, <<"d","D">>, <<"e","E">>,
               <<"f","F">>, <<"g","G">>, <<"h","H">>, <<"i","I">>, <<"j","J">>,
               <<"k","K">>, <<"l","L">>, <<"m","M">>, <<"n","N">>, <<"o","O">>,
               <<"p","P">>, <<"q","Q">>, <<"r","R">>, <<"s","S">>, <<"t","T">>,
               <<"u","U">>, <<"v","V">>, <<"w","W">>, <<"x","X">>, <<"y","Y">>,
               <<"z","Z">>}

UpperChar(c) == IF c \in LowerLetters
                THEN (CHOOSE pr \in UpperPairs : pr[1] = c)[2]
                ELSE c

\* String.prototype.toUpperCase
toUpperCase(s) == [i \in 1..Len(s) |-> UpperChar(s[i])]

RECURSIVE LetterRunEnd(_, _)
\* first position at or after i that holds no letter
LetterRunEnd(s, i) ==
    IF i <= Len(s) /\ IsLetter(s[i]) THEN LetterRunEnd(s, i + 1) ELSE i

RECURSIVE DigitRunEnd(_, _)
\* first position at or after i that holds no digit
DigitRunEnd(s, i) ==
    IF i <= Len(s) /\ IsDigit(s[i]) THEN DigitRunEnd(s, i + 1) ELSE i

\* the pattern matches with its first character at position i
KeyMatchesAt(s, i) ==
    LET j == LetterRunEnd(s, i)
    IN  /\ j > i
        /\ j <= Len(s)
        /\ s[j] = "-"
        /\ DigitRunEnd(s, j + 1) > j + 1

\* searchString.match(jiraRegex): None, or Some(match[1]) of the leftmost match
jiraRegexMatch(s) ==
    LET starts == {i \in 1..Len(s) : KeyMatchesAt(s, i)}
    IN  IF starts = {} THEN None
        ELSE LET i == CHOOSE k \in starts : \A m \in starts : k <= m
                 j == LetterRunEnd(s, i)
             IN  Some(SubSeq(s, i, DigitRunEnd(s, j + 1) - 1))

UndefinedText == <<"u","n","d","e","f","i","n","e","d">>

\* a template literal's rendering of a text that may be undefined
Interp(t) == IF t = None THEN UndefinedText ELSE t[1]

\* variant: the branch name is searched before the title
searchStringBranchFirst(pr) ==
    Interp(pr.head[1].ref) \o <<" ">> \o Interp(pr.title) \o <<" ">>
        \o (IF pr.body = None THEN <<>> ELSE pr.body[1])

\* `${pr.title} ${pr.head.ref} ${pr.body || ''}`  (head is present here)
searchString(pr) ==
    Interp(pr.title) \o <<" ">> \o Interp(pr.head[1].ref) \o <<" ">>
        \o (IF pr.body = None THEN <<>> ELSE pr.body[1])

\* the key of agent.js:77-82 and agent.js:158-166: None or Some(upper-cased match)
DetectJiraKey(pr) ==
    LET match == jiraRegexMatch(searchString(pr))
    IN  IF match = None THEN None ELSE Some(toUpperCase(match[1]))

----------------------------------------------------------------------------
(* The webhook events the model feeds to processAgentTask *)

TitleT == <<"t">>
TitleProj == <<"P","R","O","J","-","1","2","3"," ","F","i","x"," ","b","u","g">>
TitleFix == <<"f","i","x">>
HeadFeature == <<"f","e","a","t","u","r","e">>
HeadFeatureX == <<"f","e","a","t","u","r","e","/","x">>
HeadKey == <<"a","b","-","1","2">>
BodyKey == <<"s","e","e"," ","Q","A","-","7">>

\* (title, head branch, body) of the pull requests of the pipeline runs
PrTexts ==
    { [title |-> Some(TitleT), head |-> HeadFeature, body |-> None],
      [title |-> Some(TitleProj), head |-> HeadFeatureX, body |-> Some(<<>>)],
      [title |-> Some(TitleFix), head |-> HeadKey, body |-> None],
      [title |-> None, head |-> HeadFeature, body |-> Some(BodyKey)] }

Actions == {"opened", "synchronize", "reopened", "closed", "labeled", Undefined}
Refs == {"master", "main", "develop", Undefined}
Mergeds == {None, Some(TRUE), Some(FALSE)}

PullRequest(merged, base, head, text) ==
    [ number |-> "1", merged |-> merged, base |-> base,
      head |-> IF head THEN Some([ref |-> Some(text.head)]) ELSE None,
      title |-> text.title, body |-> text.body, html_url |-> Undefined ]

Base(ref, repo) ==
    Some([ref |-> ref,
          repo |-> IF repo THEN Some([name |-> Undefined, full_name |-> "org/repo"])
                   ELSE None])

Repository == Some([owner |-> Some([login |-> "org"]), name |-> "repo"])

TextOfSpec == [title |-> Some(TitleT), head |-> HeadFeature, body |-> None]

\* events that vary the fields the gate reads (agent.js:22-39)
GateEvents ==
    { [action |-> a, pull_request |-> None, repository |-> Repository] :
        a \in Actions }
    \cup
    { [action |-> a,
       pull_request |-> Some(PullRequest(m, b, TRUE, TextOfSpec)),
       repository |-> Repository] :
        a \in Actions, m \in Mergeds,
        b \in {None} \cup {Base(r, TRUE) : r \in Refs} }

\* events that pass the gate and vary what the later stages read
PipelineEvents ==
    { [action |-> a,
       pull_request |-> Some(PullRequest(Some(TRUE), Base("master", repo), head, text)),
       repository |-> rep] :
        a \in {"opened", "closed"}, repo \in BOOLEAN, head \in BOOLEAN,
        text \in PrTexts, rep \in {None, Some([owner |-> None, name |-> "repo"]), Repository} }

Events == GateEvents \cup PipelineEvents

----------------------------------------------------------------------------
(* The event gate, agent.js:22-39 *)

\* variant: the action list also admits 'labeled'
allowedActionsWithLabeled == {"opened", "synchronize", "reopened", "closed", "labeled"}

allowedActions == {"opened", "synchronize", "reopened", "closed"}

\* variant: the merge test only asks whether the field is there
IsMergedIfPresent(pr) == pr.merged # None

\* pull_request.merged is truthy
IsMerged(pr) == pr.merged # None /\ pr.merged[1]

\* variant: the branch test also lets 'develop' through
IsProductionOrDevelop(baseBranch) ==
    baseBranch = "master" \/ baseBranch = "main" \/ baseBranch = "develop"

\* baseBranch !== 'master' && baseBranch !== 'main' is false
IsProductionBranch(baseBranch) == baseBranch = "master" \/ baseBranch = "main"

\* variant: only the action is tested by the gate
EventGateActionOnly(p) ==
    IF p.action \notin allowedActions THEN "skipped"
    ELSE IF p.pull_request = None THEN "TypeError"
    ELSE IF p.pull_request[1].base = None THEN "TypeError"
    ELSE "proceed"

\* The gate of processAgentTask: "skipped" (a return of {status: 'skipped'}),
\* "proceed", or "TypeError" (a property read of undefined).
EventGate(p) ==
    IF p.action \notin allowedActions THEN "skipped"
    ELSE IF p.action = "closed" /\ p.pull_request = None THEN "TypeError"
    ELSE IF p.action = "closed" /\ ~IsMerged(p.pull_request[1]) THEN "skipped"
    ELSE IF p.pull_request = None THEN "TypeError"
    ELSE IF p.pull_request[1].base = None THEN "TypeError"
    ELSE IF ~IsProductionBranch(p.pull_request[1].base[1].ref) THEN "skipped"
    ELSE "proceed"

\* agent.js:41-45: the reads of repository.owner.login and pull_request.head.ref
FieldsReadable(p) ==
    /\ p.repository # None
    /\ p.repository[1].owner # None
    /\ p.pull_request[1].head # None

----------------------------------------------------------------------------
(* process.env as read at agent.js:50-63 *)

\* a URL is a sequence of tokens: "http", "s", ":", "/", "?" and name tokens
JiraUrlGood == <<"http", "s", ":", "/", "/", "example.atlassian.net">>
JiraUrlBad == <<"example.atlassian.net">>

JiraFull == [jiraUrl |-> Some(JiraUrlGood), jiraEmail |-> "me@x", jiraToken |-> "jtok"]
JiraNone == [jiraUrl |-> None, jiraEmail |-> Undefined, jiraToken |-> Undefined]

JiraEnvs ==
    { JiraFull, JiraNone,
      [JiraFull EXCEPT !.jiraUrl = None],
      [JiraFull EXCEPT !.jiraUrl = Some(JiraUrlBad)],
      [JiraFull EXCEPT !.jiraEmail = Undefined],
      [JiraFull EXCEPT !.jiraToken = Undefined] }

EmailFull == [EMAIL_HOST |-> "smtp.x", EMAIL_PORT |-> Undefined, EMAIL_USER |-> "user",
              EMAIL_PASS |-> "pass", EMAIL_TO |-> "to@x"]
EmailNone == [EMAIL_HOST |-> Undefined, EMAIL_PORT |-> Undefined, EMAIL_USER |-> Undefined,
              EMAIL_PASS |-> Undefined, EMAIL_TO |-> Undefined]

EmailEnvs ==
    { EmailFull, EmailNone,
      [EmailFull EXCEPT !.EMAIL_HOST = Undefined],
      [EmailFull EXCEPT !.EMAIL_USER = Undefined],
      [EmailFull EXCEPT !.EMAIL_PASS = Undefined],
      [EmailFull EXCEPT !.EMAIL_TO = Undefined] }

MkEnv(gh, groq, jira, mail) ==
    [ githubToken |-> gh, groqKey |-> groq,
      jiraUrl |-> jira.jiraUrl, jiraEmail |-> jira.jiraEmail, jiraToken |-> jira.jiraToken,
      EMAIL_HOST |-> mail.EMAIL_HOST, EMAIL_PORT |-> mail.EMAIL_PORT,
      EMAIL_USER |-> mail.EMAIL_USER, EMAIL_PASS |-> mail.EMAIL_PASS,
      EMAIL_TO |-> mail.EMAIL_TO ]

\* the environments of the model: each service's settings are varied with the
\* other services fully configured, plus the environment with no optional service
Envs ==
    { MkEnv(gh, groq, JiraFull, EmailFull) :
        gh \in {"ghtok", Undefined}, groq \in {"gkey", Undefined} }
    \cup { MkEnv("ghtok", "gkey", j, EmailFull) : j \in JiraEnvs }
    \cup { MkEnv("ghtok", "gkey", JiraFull, m) : m \in EmailEnvs }
    \cup { MkEnv("ghtok", "gkey", JiraNone, EmailNone) }

\* variant: only the GitHub token is required
CheckGithubTokenOnly(cfg) ==
    IF ~Truthy(cfg.githubToken) THEN "ConfigurationError" ELSE "ok"

\* agent.js:65-71: "ok", or the configuration error that is thrown
CheckRequiredKeys(cfg) ==
    IF ~Truthy(cfg.githubToken) THEN "ConfigurationError"
    ELSE IF ~Truthy(cfg.groqKey) THEN "ConfigurationError"
    ELSE "ok"

\* variant: the email setting is not asked for
JiraConfiguredNoEmail(cfg) == cfg.jiraUrl # None /\ Truthy(cfg.jiraToken)

\* config.jiraUrl && config.jiraToken && config.jiraEmail
JiraConfigured(cfg) ==
    cfg.jiraUrl # None /\ Truthy(cfg.jiraToken) /\ Truthy(cfg.jiraEmail)

\* variant: the recipient is not asked for
EmailConfiguredNoRecipient(cfg) ==
    Truthy(cfg.EMAIL_HOST) /\ Truthy(cfg.EMAIL_USER) /\ Truthy(cfg.EMAIL_PASS)

\* !EMAIL_HOST || !EMAIL_USER || !EMAIL_PASS || !EMAIL_TO is false
EmailConfigured(cfg) ==
    /\ Truthy(cfg.EMAIL_HOST) /\ Truthy(cfg.EMAIL_USER)
    /\ Truthy(cfg.EMAIL_PASS) /\ Truthy(cfg.EMAIL_TO)

----------------------------------------------------------------------------
(* URL patterns of impactLogic.js *)

\* /https?:\/\/([^/]+)/ matches with "http" at position i
HostMatchesAt(u, i) ==
    LET k == IF i + 1 <= Len(u) /\ u[i + 1] = "s" THEN i + 2 ELSE i + 1
    IN  /\ u[i] = "http"
        /\ k + 3 <= Len(u)
        /\ u[k] = ":" /\ u[k + 1] = "/" /\ u[k + 2] = "/"
        /\ u[k + 3] # "/"

RECURSIVE NonSlashRunEnd(_, _)
NonSlashRunEnd(u, i) ==
    IF i <= Len(u) /\ u[i] # "/" THEN NonSlashRunEnd(u, i + 1) ELSE i

\* variant: every text is taken for a URL whose host is the text itself
hostMatchAnyText(u) == Some([whole |-> u, host |-> u])

\* url.match(/https?:\/\/([^/]+)/): None, or Some([whole, host]) (match[0], match[1])
hostMatch(u) ==
    LET starts == {i \in 1..Len(u) : HostMatchesAt(u, i)}
    IN  IF starts = {} THEN None
        ELSE LET i == CHOOSE k \in starts : \A m \in starts : k <= m
                 h == IF u[i + 1] = "s" THEN i + 5 ELSE i + 4
                 e == NonSlashRunEnd(u, h)
             IN  Some([whole |-> SubSeq(u, i, e - 1), host |-> SubSeq(u, h, e - 1)])

RECURSIVE KeyRunEnd(_, _)
\* [^/?]+
KeyRunEnd(u, i) ==
    IF i <= Len(u) /\ u[i] # "/" /\ u[i] # "?" THEN KeyRunEnd(u, i + 1) ELSE i

\* url.match(/browse\/([^/?]+)/): None, or Some(match[1])
keyMatch(u) ==
    LET starts == {i \in 1..Len(u) :
                     /\ u[i] = "browse" /\ i + 2 <= Len(u) /\ u[i + 1] = "/"
                     /\ KeyRunEnd(u, i + 2) > i + 2}
    IN  IF starts = {} THEN None
        ELSE LET i == CHOOSE k \in starts : \A m \in starts : k <= m
             IN  Some(SubSeq(u, i + 2, KeyRunEnd(u, i + 2) - 1))

\* agent.js:176-177: `${jiraDomain}/browse/${jiraKey}`
TargetUrl(jiraDomain, key) == jiraDomain \o <<"/", "browse", "/">> \o key

----------------------------------------------------------------------------
(* Diff text, the self-reference filter and the project tree (impactLogic.js) *)

\* A diff text is a sequence of tokens: DiffMarker is the per-file marker
\* 'diff --git ', the blank tokens are white space, a self token is a text
\* holding 'a/ImpactX_Agent/' or 'b/ImpactX_Agent/', any other token is other text.
DiffMarker == "diff --git "
BlankTokens == {" ", "\n"}
SelfTokens == {"a/ImpactX_Agent/agent.js", "b/ImpactX_Agent/agent.js"}

\* String.prototype.trim() leaves a non-empty string
TrimNonEmpty(seg) == \E i \in 1..Len(seg) : seg[i] \notin BlankTokens

\* variant: only the old side of the comparison is looked at
IncludesSelfOldSide(seg) == \E i \in 1..Len(seg) : seg[i] = "a/ImpactX_Agent/agent.js"

\* file.includes('a/ImpactX_Agent/') || file.includes('b/ImpactX_Agent/')
IncludesSelf(seg) == \E i \in 1..Len(seg) : seg[i] \in SelfTokens

RECURSIVE split(_)
\* text.split('diff --git ')
split(text) ==
    LET marks == {i \in 1..Len(text) : text[i] = DiffMarker}
    IN  IF marks = {} THEN <<text>>
        ELSE LET i == CHOOSE k \in marks : \A m \in marks : k <= m
             IN  <<SubSeq(text, 1, i - 1)>> \o split(SubSeq(text, i + 1, Len(text)))

RECURSIVE join(_)
\* segments.join('diff --git ')
join(segs) ==
    IF Len(segs) = 0 THEN <<>>
    ELSE IF Len(segs) = 1 THEN segs[1]
    ELSE segs[1] \o <<DiffMarker>> \o join(Tail(segs))

\* the predicate of the .filter() at impactLogic.js:118
KeepSegment(file) == TrimNonEmpty(file) /\ ~IncludesSelf(file)

\* variant: only the first segment that fails the predicate is taken out
filteredDiffFirstOnly(text) ==
    LET segs == split(text)
        bad == {i \in 1..Len(segs) : ~KeepSegment(segs[i])}
    IN  IF bad = {} THEN text
        ELSE LET i == CHOOSE k \in bad : \A m \in bad : k <= m
             IN  join(SubSeq(segs, 1, i - 1) \o SubSeq(segs, i + 1, Len(segs)))

\* impactLogic.js:117-119 and 215-217
filteredDiff(text) == join(SelectSeq(split(text), KeepSegment))

ImpactDiffLimit == 8000
TestDiffLimit == 5000
TreeLimit == 300

\* String.prototype.substring(0, n), one token counted as one character
substring(text, n) == SubSeq(text, 1, IF Len(text) < n THEN Len(text) ELSE n)

DiffWithSelf ==
    <<DiffMarker, "a/app/Main.java", " ", "b/app/Main.java", "\n", "+code", "\n",
      DiffMarker, "a/ImpactX_Agent/agent.js", " ", "b/ImpactX_Agent/agent.js", "\n", "+x">>
DiffPlain == <<DiffMarker, "a/app/Main.java", " ", "b/app/Main.java", "\n", "+code">>

\* the diff texts the compare endpoint answers with
Diffs == {DiffWithSelf, DiffPlain}

\* i.path.startsWith('ImpactX_Agent/'), a path being a sequence of name tokens
UnderAgentDir(path) == Len(path) > 0 /\ path[1] = "ImpactX_Agent/"

NotUnderAgentDir(i) == ~UnderAgentDir(i.path)

\* variant: the cap is applied to the upstream entries, before the filter
TreeOfSliceFirst(upstream) ==
    LET first == SubSeq(upstream, 1,
                        IF Len(upstream) < TreeLimit THEN Len(upstream) ELSE TreeLimit)
        kept == SelectSeq(first, NotUnderAgentDir)
    IN  [k \in 1..Len(kept) |->
           [path |-> kept[k].path,
            type |-> IF kept[k].type = "tree" THEN "directory" ELSE "file"]]

\* impactLogic.js:36-39
TreeOf(upstream) ==
    LET kept == SelectSeq(upstream, NotUnderAgentDir)
        mapped == [k \in 1..Len(kept) |->
                     [path |-> kept[k].path,
                      type |-> IF kept[k].type = "tree" THEN "directory" ELSE "file"]]
    IN  SubSeq(mapped, 1, IF Len(mapped) < TreeLimit THEN Len(mapped) ELSE TreeLimit)

UpstreamTree ==
    << [path |-> <<"ImpactX_Agent/", "agent.js">>, type |-> "blob"],
       [path |-> <<"app">>, type |-> "tree"],
       [path |-> <<"app", "/", "Main.java">>, type |-> "blob"] >>

----------------------------------------------------------------------------
(* What the language model answers, and JSON.parse of it *)

\* variant: a lenient parse that yields null for an invalid text
JSONparseLenient(text) == [ok |-> TRUE, value |-> text.value]

\* JSON.parse(text): a JSON text is [valid, value]; an invalid one throws
JSONparse(text) ==
    IF text.valid THEN [ok |-> TRUE, value |-> text.value]
    ELSE [ok |-> FALSE, value |-> None]

InvalidJson == [valid |-> FALSE, value |-> None]
Json(v) == [valid |-> TRUE, value |-> v]

Risk(score, reasoning) == Some([score |-> score, reasoning |-> reasoning])

TechAll == Some([api |-> "api", database |-> "db", logic |-> "logic",
                 ui |-> "ui", security |-> "sec"])
TechEmpty == Some([api |-> Undefined, database |-> Undefined, logic |-> Undefined,
                   ui |-> Undefined, security |-> Undefined])

AlignFull == Some([fullyAddressed |-> Some(FALSE), alignmentScore |-> "HIGH",
                   missingRequirements |-> Some(<<"req1">>),
                   additionalChanges |-> Some(<<>>)])
AlignEmpty == Some([fullyAddressed |-> None, alignmentScore |-> Undefined,
                    missingRequirements |-> None, additionalChanges |-> None])

Analysis(risk, keyChanges, align, tech) ==
    [risk |-> risk, keyChanges |-> keyChanges,
     requirementsAlignment |-> align, technicalDetails |-> tech]

\* {}  and  {"risk": {"score": "LOW"}}  and a complete answer
AnalysisEmpty == Analysis(None, None, None, None)
AnalysisLow == Analysis(Risk("LOW", Undefined), None, None, None)
AnalysisFull == Analysis(Risk("HIGH", "because"), Some(<<"change">>), AlignFull, TechAll)

\* every object in which any subset of the fields is absent
AllAnalyses ==
    { Analysis(r, k, a, t) :
        r \in {None} \cup {Risk(sc, re) : sc \in {Undefined, "LOW"},
                                           re \in {Undefined, "because"}},
        k \in {None, Some(<<"change">>)},
        a \in {None, AlignEmpty, AlignFull},
        t \in {None, TechEmpty, TechAll} }

\* agent.js:203: the comment shows testCases.slice(0, 5)
CommentCaseLimit == 5

TestCase(steps, priority) ==
    [title |-> "case", steps |-> steps, expectedResult |-> "works", priority |-> priority]

TestCaseVariants ==
    { TestCase(st, p) : st \in {None, Some(<<"step a", "step b">>)},
                        p \in {Undefined, "HIGH"} }

MaxCases == 2

RECURSIVE SeqsUpTo(_, _)
\* the sequences over S of length at most n
SeqsUpTo(S, n) ==
    IF n = 0 THEN {<<>>}
    ELSE LET shorter == SeqsUpTo(S, n - 1)
         IN  shorter \cup {Append(q, x) : q \in shorter, x \in S}

TestCaseSet(cases) == [summary |-> "summary", testCases |-> cases]

\* {}  and  {"testCases": []}  and two generated cases
TestsEmpty == TestCaseSet(None)
TestsNone == TestCaseSet(Some(<<>>))
TestsTwo == TestCaseSet(Some(<<TestCase(Some(<<"step a", "step b">>), "HIGH"),
                               TestCase(None, Undefined)>>))

\* one test case more than a comment shows
TestsSix ==
    TestCaseSet(Some([i \in 1..(CommentCaseLimit + 1) |->
                        TestCase(IF i = 1 THEN Some(<<"step a", "step b">>) ELSE None,
                                 Undefined)]))

AllTestCaseSets ==
    {TestsEmpty} \cup {TestCaseSet(Some(q)) : q \in SeqsUpTo(TestCaseVariants, MaxCases)}

\* the contents the chat-completion endpoint answers with in the pipeline runs
AnalysisAnswers == {InvalidJson, Json(None), Json(Some(AnalysisEmpty)),
                    Json(Some(AnalysisLow)), Json(Some(AnalysisFull))}
TestCaseAnswers == {InvalidJson, Json(Some(TestsEmpty)), Json(Some(TestsNone)),
                    Json(Some(TestsTwo)), Json(Some(TestsSix))}

----------------------------------------------------------------------------
(* Comment composition, report rendering and the returned value *)

\* variant: the last n elements
sliceLast(q, n) == SubSeq(q, IF Len(q) < n THEN 1 ELSE Len(q) - n + 1, Len(q))

\* Array.prototype.slice(0, n)
slice(q, n) == SubSeq(q, 1, IF Len(q) < n THEN Len(q) ELSE n)

\* x?.f || d for an optional object x with the string field f
OptField(x, f, d) == IF x = None THEN d ELSE OrElse(x[1][f], d)

\* list?.length > 0
NonEmptyList(l) == l # None /\ Len(l[1]) > 0

\* agent.js:203-206: one suggested test case of the comment
CommentCase(tc) ==
    [ priority |-> tc.priority, title |-> tc.title,
      steps |-> LET st == IF tc.steps = None THEN <<>> ELSE tc.steps[1]
                IN  [i \in 1..Len(st) |-> [n |-> i, text |-> st[i]]],
      expected |-> tc.expectedResult ]

\* agent.js:188-194: the requirements-alignment block
AlignmentBlock(ra) ==
    [ fullyAddressed |-> IF ra.fullyAddressed # None /\ ra.fullyAddressed[1]
                         THEN "Yes" ELSE "No",
      alignmentScore |-> OrElse(ra.alignmentScore, "N/A"),
      missing |-> IF NonEmptyList(ra.missingRequirements)
                  THEN ra.missingRequirements[1] ELSE <<>>,
      additional |-> IF NonEmptyList(ra.additionalChanges)
                     THEN ra.additionalChanges[1] ELSE <<>> ]

\* agent.js:180-210: [ok, body]; ok is FALSE when a property of null is read
ComposeComment(an, tcs, action, pr) ==
    IF an = None \/ tcs = None THEN [ok |-> FALSE, body |-> None]
    ELSE LET a == an[1]
             list == IF tcs[1].testCases = None THEN <<>> ELSE tcs[1].testCases[1]
             shown == slice(list, CommentCaseLimit)
         IN  [ ok |-> TRUE,
               body |-> Some(
                 [ header |-> IF action = "closed" THEN "Post-Merge Analysis"
                              ELSE "Impact Analysis",
                   number |-> pr.number,
                   risk |-> OptField(a.risk, "score", "IDENTIFIED"),
                   summary |-> OptField(a.risk, "reasoning", "No summary provided."),
                   alignment |-> IF a.requirementsAlignment # None
                                 THEN Some(AlignmentBlock(a.requirementsAlignment[1]))
                                 ELSE None,
                   api |-> OptField(a.technicalDetails, "api", "N/A"),
                   database |-> OptField(a.technicalDetails, "database", "N/A"),
                   logic |-> OptField(a.technicalDetails, "logic", "N/A"),
                   security |-> OptField(a.technicalDetails, "security", "N/A"),
                   cases |-> [i \in 1..Len(shown) |-> CommentCase(shown[i])] ]) ]

\* String.prototype.toUpperCase / toLowerCase on the words the report uses
UpperWord(w) == CASE w = "low" -> "LOW" [] w = "high" -> "HIGH"
                  [] w = "medium" -> "MEDIUM" [] w = "critical" -> "CRITICAL"
                  [] OTHER -> w
LowerWord(w) == CASE w = "LOW" -> "low" [] w = "HIGH" -> "high"
                  [] w = "MEDIUM" -> "medium" [] w = "CRITICAL" -> "critical"
                  [] OTHER -> w

NoImpact == "No significant impact detected."

\* emailService.js:177-195: one row of the test-case table
EmailRow(tc) ==
    [ badge |-> LowerWord(OrElse(tc.priority, "low")),
      priority |-> OrElse(tc.priority, "LOW"),
      title |-> tc.title,
      steps |-> IF tc.steps = None THEN <<>> ELSE tc.steps[1],
      expected |-> tc.expectedResult ]

\* emailService.js:25-211: [ok, mail]; ok is FALSE when a property of
\* undefined or null is read while the subject and the HTML are built
RenderEmail(cfg, pr, an, tcs) ==
    IF \/ pr.base = None \/ pr.base[1].repo = None \/ pr.head = None
       \/ an = None \/ tcs = None
    THEN [ok |-> FALSE, mail |-> None]
    ELSE LET a == an[1]
             list == IF tcs[1].testCases = None THEN <<>> ELSE tcs[1].testCases[1]
         IN  [ ok |-> TRUE,
               mail |-> Some(
                 [ to |-> cfg.EMAIL_TO,
                   subject |-> [ number |-> pr.number,
                                 status |-> IF IsMerged(pr) THEN "Merged to"
                                            ELSE "Analysis for",
                                 base |-> pr.base[1].ref ],
                   html |-> [ number |-> pr.number,
                              repoName |-> pr.base[1].repo[1].name,
                              risk |-> UpperWord(OptField(a.risk, "score", "DEFAULT")),
                              reasoning |-> OptField(a.risk, "reasoning",
                                                     "No details provided."),
                              title |-> pr.title,
                              status |-> IF IsMerged(pr) THEN "Merged" ELSE "Open",
                              headRef |-> pr.head[1].ref,
                              baseRef |-> pr.base[1].ref,
                              keyChanges |-> IF a.keyChanges = None THEN <<>>
                                             ELSE a.keyChanges[1],
                              api |-> OptField(a.technicalDetails, "api", NoImpact),
                              database |-> OptField(a.technicalDetails, "database", NoImpact),
                              logic |-> OptField(a.technicalDetails, "logic", NoImpact),
                              security |-> OptField(a.technicalDetails, "security", NoImpact),
                              rows |-> [i \in 1..Len(list) |-> EmailRow(list[i])],
                              url |-> pr.html_url ] ]) ]

\* variant: the risk is read as analysis.risk.score, without the optional chain
BuildResultStrict(an, tcs) ==
    IF an = None \/ tcs = None THEN [ok |-> FALSE, value |-> None]
    ELSE IF an[1].risk = None THEN [ok |-> FALSE, value |-> None]
    ELSE [ ok |-> TRUE,
           value |-> Some(
             [ status |-> "success",
               risk |-> Some(an[1].risk[1].score),
               testCaseCount |-> Some(IF tcs[1].testCases = None THEN 0
                                      ELSE Len(tcs[1].testCases[1])) ]) ]

\* variant: the result reports the reasoning in place of the score
BuildResultReasoning(an, tcs) ==
    IF an = None \/ tcs = None THEN [ok |-> FALSE, value |-> None]
    ELSE [ ok |-> TRUE,
           value |-> Some(
             [ status |-> "success",
               risk |-> Some(IF an[1].risk = None THEN Undefined
                             ELSE an[1].risk[1].reasoning),
               testCaseCount |-> Some(IF tcs[1].testCases = None THEN 0
                                      ELSE Len(tcs[1].testCases[1])) ]) ]

\* variant: the result counts the test cases the comment shows
BuildResultShown(an, tcs) ==
    IF an = None \/ tcs = None THEN [ok |-> FALSE, value |-> None]
    ELSE [ ok |-> TRUE,
           value |-> Some(
             [ status |-> "success",
               risk |-> Some(IF an[1].risk = None THEN Undefined
                             ELSE an[1].risk[1].score),
               testCaseCount |-> Some(IF tcs[1].testCases = None THEN 0
                                      ELSE Len(slice(tcs[1].testCases[1],
                                                     CommentCaseLimit))) ]) ]

\* agent.js:130-134: [ok, value]; ok is FALSE when analysis or testCases is null
BuildResult(an, tcs) ==
    IF an = None \/ tcs = None THEN [ok |-> FALSE, value |-> None]
    ELSE [ ok |-> TRUE,
           value |-> Some(
             [ status |-> "success",
               risk |-> Some(IF an[1].risk = None THEN Undefined
                             ELSE an[1].risk[1].score),
               testCaseCount |-> Some(IF tcs[1].testCases = None THEN 0
                                      ELSE Len(tcs[1].testCases[1])) ]) ]

\* the value of `return { status: 'skipped' }`
SkippedResult == Some([status |-> "skipped", risk |-> None, testCaseCount |-> None])

----------------------------------------------------------------------------
(* processAgentTask as a state machine *)

\* how a network exchange ends: a 2xx response, another response, no response
Statuses == {"ok", "non2xx", "networkError"}

\* one network exchange: the request sent, how it ended and the content answered
Exchange(service, op, arg, status, reply) ==
    [service |-> service, op |-> op, arg |-> arg, status |-> status, reply |-> reply]

TicketInfo(key) ==
    [key |-> key, title |-> "Ticket title", description |-> "Ticket description",
     status |-> "Open", priority |-> "High", issueType |-> "Story"]

\* neither sink is running side by side with the other
NoSinks == [jira |-> "idle", aio |-> "idle", generated |-> <<>>, created |-> <<>>]

pull_request == payload.pull_request[1]
conf == config[1]

Init ==
    /\ payload \in Events
    /\ pc = "gate"
    /\ outcome = "running"
    /\ errKind = "none"
    /\ result = None
    /\ config = None
    /\ jiraKey = None
    /\ jiraTicket = None
    /\ diff = <<>>
    /\ tree = None
    /\ analysis = None
    /\ testCases = None
    /\ comment = None
    /\ email = None
    /\ sync = None
    /\ sinks = NoSinks
    /\ peer = None
    /\ calls = <<>>
    /\ requests = <<>>

\* variant: a failed stage is run again in place of ending the invocation
ThrowAndRetry(kind) ==
    /\ pc' = pc
    /\ UNCHANGED <<outcome, errKind, result>>

\* the invocation ends by throwing kind: pc stays at the stage that threw
Throw(kind) ==
    /\ pc' = pc
    /\ outcome' = "error"
    /\ errKind' = kind
    /\ result' = None

\* the invocation goes on at next
Goto(next) ==
    /\ pc' = next
    /\ UNCHANGED <<outcome, errKind, result>>

\* variant: the source is fetched before the ticket is looked up
StageAfterSourceFirst(stage) ==
    CASE stage = "gate" -> "fields"
      [] stage = "fields" -> "config"
      [] stage = "config" -> "diff"
      [] stage = "diff" -> "tree"
      [] stage = "tree" -> "ticket"
      [] stage = "ticket" -> "impact"
      [] stage = "impact" -> "testgen"
      [] stage = "testgen" -> "jira"
      [] stage = "jira" -> "email"
      [] stage = "email" -> "return"

\* variant: after the test cases are parsed the pipeline waits for a stage that
\* nothing completes
StageAfterNeverSettled(stage) ==
    CASE stage = "gate" -> "fields"
      [] stage = "fields" -> "config"
      [] stage = "config" -> "ticket"
      [] stage = "ticket" -> "diff"
      [] stage = "diff" -> "tree"
      [] stage = "tree" -> "impact"
      [] stage = "impact" -> "testgen"
      [] stage = "testgen" -> "pending"
      [] stage = "jira" -> "email"
      [] stage = "email" -> "return"

\* the statement order of processAgentTask, agent.js:22-134: the stage that
\* follows stage when stage neither returns nor throws
StageAfter(stage) ==
    CASE stage = "gate" -> "fields"
      [] stage = "fields" -> "config"
      [] stage = "config" -> "ticket"
      [] stage = "ticket" -> "diff"
      [] stage = "diff" -> "tree"
      [] stage = "tree" -> "impact"
      [] stage = "impact" -> "testgen"
      [] stage = "testgen" -> "jira"
      [] stage = "jira" -> "email"
      [] stage = "email" -> "return"

\* the invocation ends by returning value
ReturnValue(status, value) ==
    /\ pc' = pc
    /\ outcome' = status
    /\ errKind' = "none"
    /\ result' = value

data == <<config, jiraKey, jiraTicket, diff, tree, analysis, testCases, comment, email>>

\* agent.js:14-39
Gate ==
    /\ pc = "gate" /\ outcome = "running"
    /\ LET g == EventGate(payload)
       IN  CASE g = "skipped" -> ReturnValue("skipped", SkippedResult)
             [] g = "TypeError" -> Throw("TypeError")
             [] OTHER -> Goto(StageAfter("gate"))
    /\ UNCHANGED <<payload, data, calls, requests>>
    /\ UNCHANGED <<sync, sinks, peer>>

\* agent.js:41-47
ReadFields ==
    /\ pc = "fields" /\ outcome = "running"
    /\ IF FieldsReadable(payload) THEN Goto(StageAfter("fields")) ELSE Throw("TypeError")
    /\ UNCHANGED <<payload, data, calls, requests>>
    /\ UNCHANGED <<sync, sinks, peer>>

\* agent.js:50-71
LoadConfig ==
    /\ pc = "config" /\ outcome = "running"
    /\ \E env \in Envs :
         /\ config' = Some(env)
         /\ IF CheckRequiredKeys(env) = "ok" THEN Goto(StageAfter("config"))
            ELSE Throw(CheckRequiredKeys(env))
    /\ UNCHANGED <<payload, jiraKey, jiraTicket, diff, tree, analysis, testCases,
                   comment, email, calls, requests>>
    /\ UNCHANGED <<sync, sinks, peer>>

\* variant: a ticket is built from whatever was answered
TicketOfAnyAnswer(st, key) == Some(TicketInfo(key))

\* impactLogic.js:61-112: what getJiraTicket returns for a response: the ticket,
\* or null on !resp.ok and on a rejected fetch
TicketOf(st, key) == IF st = "ok" THEN Some(TicketInfo(key)) ELSE None

\* agent.js:74-106 with getJiraTicket, impactLogic.js:50-113
LoadTicket ==
    /\ pc = "ticket" /\ outcome = "running"
    /\ LET key == DetectJiraKey(pull_request)
       IN  /\ jiraKey' = key
           /\ IF key # None /\ JiraConfigured(conf)
              THEN LET hm == hostMatch(conf.jiraUrl[1])
                   IN  /\ calls' = Append(calls, "getJiraTicket")
                       /\ IF hm = None
                          THEN \* 'Invalid JIRA URL format' is thrown and caught at agent.js:100
                               /\ jiraTicket' = None
                               /\ UNCHANGED requests
                          ELSE \E st \in Statuses :
                                 /\ requests' = Append(requests,
                                       Exchange("jira", "getIssue",
                                                [host |-> hm[1].host, key |-> key[1]],
                                                st, None))
                                 /\ jiraTicket' = TicketOf(st, key[1])
              ELSE UNCHANGED <<jiraTicket, calls, requests>>
    /\ Goto(StageAfter("ticket"))
    /\ UNCHANGED <<payload, config, diff, tree, analysis, testCases, comment, email>>
    /\ UNCHANGED <<sync, sinks, peer>>

\* variant: getGitHubDiff without the !resp.ok test
DiffThrowsNetworkOnly(st) ==
    IF st = "networkError" THEN "NetworkError" ELSE "none"

\* impactLogic.js:11-21: what getGitHubDiff throws for a response, "none" when nothing
DiffThrows(st) ==
    CASE st = "networkError" -> "NetworkError"
      [] st = "non2xx" -> "UpstreamError"
      [] OTHER -> "none"

\* agent.js:110 with getGitHubDiff, impactLogic.js:9-23
FetchDiff ==
    /\ pc = "diff" /\ outcome = "running"
    /\ calls' = Append(calls, "getGitHubDiff")
    /\ \E st \in Statuses, d \in Diffs :
         /\ requests' = Append(requests, Exchange("github", "compare", <<>>, st, None))
         /\ IF DiffThrows(st) = "none"
            THEN /\ diff' = d
                 /\ Goto(StageAfter("diff"))
            ELSE /\ Throw(DiffThrows(st))
                 /\ UNCHANGED diff
    /\ UNCHANGED <<payload, config, jiraKey, jiraTicket, tree, analysis, testCases,
                   comment, email>>
    /\ UNCHANGED <<sync, sinks, peer>>

\* variant: getGitHubTree raising on a non-2xx response
TreeThrowsOnNon2xx(st) ==
    CASE st = "networkError" -> "NetworkError"
      [] st = "non2xx" -> "UpstreamError"
      [] OTHER -> "none"

\* impactLogic.js:26-34: what getGitHubTree throws for a response; on
\* !resp.ok it returns null and throws nothing
TreeThrows(st) ==
    IF st = "networkError" THEN "NetworkError" ELSE "none"

\* agent.js:111 with getGitHubTree, impactLogic.js:25-40
FetchTree ==
    /\ pc = "tree" /\ outcome = "running"
    /\ calls' = Append(calls, "getGitHubTree")
    /\ \E st \in Statuses :
         /\ requests' = Append(requests, Exchange("github", "tree", <<>>, st, None))
         /\ IF TreeThrows(st) = "none"
            THEN /\ tree' = IF st = "ok" THEN Some(TreeOf(UpstreamTree)) ELSE None
                 /\ Goto(StageAfter("tree"))
            ELSE /\ Throw(TreeThrows(st))
                 /\ UNCHANGED tree
    /\ UNCHANGED <<payload, config, jiraKey, jiraTicket, diff, analysis, testCases,
                   comment, email>>
    /\ UNCHANGED <<sync, sinks, peer>>

\* impactLogic.js:208-209 and 265-266: what a model call throws for a response
ModelThrows(st) ==
    CASE st = "networkError" -> "NetworkError"
      [] st = "non2xx" -> "ModelError"
      [] OTHER -> "none"

\* the request body of summarizeImpact, impactLogic.js:117-195
ImpactPrompt(d, structure, ticket) ==
    [ diff |-> substring(filteredDiff(d), ImpactDiffLimit),
      structure |-> IF structure = None THEN <<>> ELSE structure[1],
      ticket |-> ticket,
      max_tokens |-> IF ticket # None THEN 2500 ELSE 1500 ]

\* agent.js:113-114 with summarizeImpact, impactLogic.js:115-211
SummarizeImpact ==
    /\ pc = "impact" /\ outcome = "running"
    /\ calls' = Append(calls, "summarizeImpact")
    /\ IF ~Truthy(conf.groqKey)
       THEN /\ Throw("ModelError")
            /\ UNCHANGED <<requests, analysis>>
       ELSE \E st \in Statuses :
              \E content \in IF st = "ok" THEN AnalysisAnswers ELSE {InvalidJson} :
                /\ requests' = Append(requests,
                      Exchange("groq", "impact", ImpactPrompt(diff, tree, jiraTicket),
                               st, IF st = "ok" THEN Some(content) ELSE None))
                /\ IF ModelThrows(st) # "none"
                   THEN /\ Throw(ModelThrows(st))
                        /\ UNCHANGED analysis
                   ELSE IF ~JSONparse(content).ok
                   THEN /\ Throw("SyntaxError")
                        /\ UNCHANGED analysis
                   ELSE /\ analysis' = JSONparse(content).value
                        /\ Goto(StageAfter("impact"))
    /\ UNCHANGED <<payload, config, jiraKey, jiraTicket, diff, tree, testCases,
                   comment, email>>
    /\ UNCHANGED <<sync, sinks, peer>>

\* the request body of generateTestCases, impactLogic.js:215-263
TestCasePrompt(d, structure) ==
    [ diff |-> substring(filteredDiff(d), TestDiffLimit),
      structure |-> slice(IF structure = None THEN <<>> ELSE structure[1], 50) ]

\* agent.js:118-119 with generateTestCases, impactLogic.js:213-268
GenerateTestCases ==
    /\ pc = "testgen" /\ outcome = "running"
    /\ calls' = Append(calls, "generateTestCases")
    /\ \E st \in Statuses :
         \E content \in IF st = "ok" THEN TestCaseAnswers ELSE {InvalidJson} :
           /\ requests' = Append(requests,
                 Exchange("groq", "testgen", TestCasePrompt(diff, tree),
                          st, IF st = "ok" THEN Some(content) ELSE None))
           /\ IF ModelThrows(st) # "none"
              THEN /\ Throw(ModelThrows(st))
                   /\ UNCHANGED testCases
              ELSE IF ~JSONparse(content).ok
              THEN /\ Throw("SyntaxError")
                   /\ UNCHANGED testCases
              ELSE /\ testCases' = JSONparse(content).value
                   /\ Goto(StageAfter("testgen"))
    /\ UNCHANGED <<payload, config, jiraKey, jiraTicket, diff, tree, analysis,
                   comment, email>>
    /\ UNCHANGED <<sync, sinks, peer>>

\* impactLogic.js:349-367: what postJiraComment throws for a response
PostThrows(st) ==
    CASE st = "networkError" -> "NetworkError"
      [] st = "non2xx" -> "UpstreamError"
      [] OTHER -> "none"

\* variant: the catch of handleJiraPosting rethrows
JiraPostRethrow(kind) == kind

\* agent.js:212-218: what leaves handleJiraPosting of an error thrown inside
\* its try block: the catch logs it and throws nothing
JiraPostCatch(kind) == "none"

\* postJiraComment, impactLogic.js:270-372: the exchange it makes, None when
\* it throws 'Invalid JIRA URL' before sending anything
CommentExchange(targetUrl, body, st) ==
    LET hm == hostMatch(targetUrl)
        km == keyMatch(targetUrl)
    IN  IF hm = None \/ km = None THEN None
        ELSE Some(Exchange("jira", "comment",
                           [host |-> hm[1].host, key |-> km[1], body |-> body],
                           st, None))

\* handleJiraPosting, agent.js:142-219, called at stage and followed by next
JiraPosting(stage, next) ==
    /\ pc = stage /\ outcome = "running"
    /\ LET key == IF jiraKey # None THEN jiraKey ELSE DetectJiraKey(pull_request)
           dm == IF conf.jiraUrl = None THEN None ELSE hostMatch(conf.jiraUrl[1])
           cc == ComposeComment(analysis, testCases, payload.action, pull_request)
       IN  IF ~JiraConfigured(conf) \/ key = None \/ dm = None
           THEN /\ Goto(next)
                /\ UNCHANGED <<comment, calls, requests>>
           ELSE IF ~cc.ok
           THEN /\ Throw("TypeError")
                /\ UNCHANGED <<comment, calls, requests>>
           ELSE /\ comment' = cc.body
                /\ calls' = Append(calls, "postJiraComment")
                /\ \E st \in Statuses, targetUrl \in {TargetUrl(dm[1].whole, key[1])} :
                     LET ex == CommentExchange(targetUrl, cc.body[1], st)
                         thrown == IF ex = None THEN "ValidationError"
                                   ELSE PostThrows(st)
                     IN  /\ requests' = IF ex = None THEN requests
                                        ELSE Append(requests, ex[1])
                         /\ IF JiraPostCatch(thrown) = "none" THEN Goto(next)
                            ELSE Throw(JiraPostCatch(thrown))
    /\ UNCHANGED <<payload, config, jiraKey, jiraTicket, diff, tree, analysis,
                   testCases, email>>
    /\ UNCHANGED <<sync, peer>>

\* agent.js:124
HandleJiraPosting ==
    /\ JiraPosting("jira", StageAfter("jira"))
    /\ UNCHANGED <<sinks, peer>>

\* variant: a rejected sendMail leaves sendImpactEmail
MailSendRethrow(st) == IF st = "ok" THEN "none" ELSE "Error"

\* emailService.js:213-223: what leaves sendImpactEmail of the sendMail call:
\* a rejection is caught and logged, nothing is thrown
MailSendCatch(st) == "none"

\* agent.js:128 with sendImpactEmail, emailService.js:7-224
SendEmail ==
    /\ pc = "email" /\ outcome = "running"
    /\ calls' = Append(calls, "sendImpactEmail")
    /\ LET re == RenderEmail(conf, pull_request, analysis, testCases)
       IN  IF ~EmailConfigured(conf)
           THEN /\ Goto(StageAfter("email"))
                /\ UNCHANGED <<email, requests>>
           ELSE IF ~re.ok
           THEN /\ Throw("TypeError")
                /\ UNCHANGED <<email, requests>>
           ELSE /\ email' = re.mail
                /\ \E st \in {"ok", "networkError"} :
                     /\ requests' = Append(requests,
                                           Exchange("smtp", "sendMail", re.mail[1], st, None))
                     /\ IF MailSendCatch(st) = "none" THEN Goto(StageAfter("email"))
                        ELSE Throw(MailSendCatch(st))
    /\ UNCHANGED <<payload, config, jiraKey, jiraTicket, diff, tree, analysis,
                   testCases, comment>>
    /\ UNCHANGED <<sync, sinks, peer>>

\* agent.js:130-134
Return ==
    /\ pc = "return" /\ outcome = "running"
    /\ LET r == BuildResult(analysis, testCases)
       IN  IF r.ok THEN ReturnValue("success", r.value) ELSE Throw("TypeError")
    /\ UNCHANGED <<payload, data, calls, requests>>
    /\ UNCHANGED <<sync, sinks, peer>>

Next ==
    \/ Gate
    \/ ReadFields
    \/ LoadConfig
    \/ LoadTicket
    \/ FetchDiff
    \/ FetchTree
    \/ SummarizeImpact
    \/ GenerateTestCases
    \/ HandleJiraPosting
    \/ SendEmail
    \/ Return

Spec == Init /\ [][Next]_vars

\* the invocation has ended
Done == outcome # "running"

\* how often collaborator name was invoked
Count(name) == Cardinality({i \in 1..Len(calls) : calls[i] = name})

\* the exchanges of operation op
ExchangesOf(op) == {i \in 1..Len(requests) : requests[i].op = op}

----------------------------------------------------------------------------
(* The later stages on every parsed model output *)

ParsedEvents ==
    { [action |-> a,
       pull_request |-> Some(PullRequest(Some(TRUE), Base("master", TRUE), TRUE,
                                         [title |-> Some(TitleProj), head |-> HeadFeatureX,
                                          body |-> Some(<<>>)])),
       repository |-> Repository] : a \in {"opened", "closed"} }

FullEnv == MkEnv("ghtok", "gkey", JiraFull, EmailFull)

\* the state of an invocation right after agent.js:119, the ticket read having
\* answered non-2xx, for every analysis object and test-case set of the bounds
InitParsed ==
    /\ payload \in ParsedEvents
    /\ pc = "jira"
    /\ outcome = "running"
    /\ errKind = "none"
    /\ result = None
    /\ config = Some(FullEnv)
    /\ jiraKey = DetectJiraKey(payload.pull_request[1])
    /\ jiraTicket = None
    /\ diff = DiffPlain
    /\ tree = Some(TreeOf(UpstreamTree))
    /\ analysis \in {Some(a) : a \in AllAnalyses}
    /\ testCases \in {Some(t) : t \in AllTestCaseSets}
    /\ comment = None
    /\ email = None
    /\ sync = None
    /\ sinks = NoSinks
    /\ peer = None
    /\ calls = <<"getJiraTicket", "getGitHubDiff", "getGitHubTree",
                 "summarizeImpact", "generateTestCases">>
    /\ requests =
         << Exchange("jira", "getIssue",
                     [host |-> hostMatch(JiraUrlGood)[1].host, key |-> jiraKey[1]],
                     "non2xx", None),
            Exchange("github", "compare", <<>>, "ok", None),
            Exchange("github", "tree", <<>>, "ok", None),
            Exchange("groq", "impact", ImpactPrompt(diff, tree, None), "ok",
                     Some(Json(analysis))),
            Exchange("groq", "testgen", TestCasePrompt(diff, tree), "ok",
                     Some(Json(testCases))) >>

NextParsed ==
    \/ HandleJiraPosting
    \/ SendEmail
    \/ Return

SpecParsed == InitParsed /\ [][NextParsed]_vars

----------------------------------------------------------------------------
(* Properties *)

\* C1: an event whose action is none of opened, synchronize, reopened, closed
\* ends at the gate with the result {status: 'skipped'}; no collaborator is
\* invoked and no network exchange is made.
C1_UnlistedActionSkipped ==
    payload.action \notin {"opened", "synchronize", "reopened", "closed"} =>
        /\ pc = "gate"
        /\ outcome \in {"running", "skipped"}
        /\ Done => result = SkippedResult
        /\ calls = <<>>
        /\ requests = <<>>

C1_Witness ==
    /\ Done
    /\ payload.action = "labeled"
    /\ payload.pull_request # None
    /\ result = SkippedResult

\* C2: an event with action closed and merged false ends at the gate with
\* status skipped, whatever its base branch (present or not) is.
C2_ClosedUnmergedSkipped ==
    ( /\ payload.action = "closed"
      /\ payload.pull_request # None
      /\ payload.pull_request[1].merged = Some(FALSE) ) =>
        /\ pc = "gate"
        /\ outcome \in {"running", "skipped"}
        /\ Done => result = SkippedResult

C2_Witness ==
    /\ Done
    /\ payload.action = "closed"
    /\ payload.pull_request # None
    /\ payload.pull_request[1].merged = Some(FALSE)
    /\ payload.pull_request[1].base # None
    /\ payload.pull_request[1].base[1].ref = "master"
    /\ result = SkippedResult

\* C3: an event whose base branch is neither master nor main ends at the gate
\* with status skipped, whatever its action and merged fields are.
C3_OtherBranchSkipped ==
    ( /\ payload.pull_request # None
      /\ payload.pull_request[1].base # None
      /\ payload.pull_request[1].base[1].ref \notin {"master", "main"} ) =>
        /\ pc = "gate"
        /\ outcome \in {"running", "skipped"}
        /\ Done => result = SkippedResult

C3_Witness ==
    /\ Done
    /\ payload.action = "closed"
    /\ payload.pull_request # None
    /\ payload.pull_request[1].merged = Some(TRUE)
    /\ payload.pull_request[1].base # None
    /\ payload.pull_request[1].base[1].ref = "develop"
    /\ result = SkippedResult

\* C4: the gate never raises: no invocation ends with an error thrown while the
\* gate (agent.js:22-39) is evaluated, also when pull_request, base or merged
\* is absent from the event.
C4_GateNeverRaises == ~(pc = "gate" /\ outcome = "error")

\* C5: an event whose action is not closed is skipped: whatever is returned has
\* status skipped and getGitHubDiff is never called.
C5_OnlyClosedTriggers ==
    payload.action # "closed" =>
        /\ Count("getGitHubDiff") = 0
        /\ result # None => result[1].status = "skipped"

E2EEvent ==
    [action |-> "closed",
     pull_request |-> Some(PullRequest(Some(TRUE), Base("master", TRUE), TRUE, TextOfSpec)),
     repository |-> Repository]

\* the scenario has run to its end: both fetches succeeded, the analysis was
\* {"risk":{"score":"LOW"}} and the test cases were {"testCases":[]}
E2EDone ==
    /\ Done
    /\ payload = E2EEvent
    /\ tree # None
    /\ analysis = Some(AnalysisLow)
    /\ testCases = Some(TestsNone)

E2EResult ==
    /\ outcome = "success"
    /\ result = Some([status |-> "success", risk |-> Some("LOW"),
                      testCaseCount |-> Some(0)])
    /\ Count("summarizeImpact") = 1
    /\ Count("generateTestCases") = 1
    /\ Count("sendImpactEmail") = 1

\* C7 as stated: in the end-to-end scenario the result is {success, LOW, 0},
\* both model calls are made, the email collaborator is invoked once and, when
\* the ticketing service is configured, the comment collaborator is invoked once.
C7_EndToEndAsStated ==
    E2EDone => /\ E2EResult
               /\ JiraConfigured(conf) => Count("postJiraComment") = 1

\* C7 amended: in the end-to-end scenario the result is {success, LOW, 0}, both
\* model calls are made, the email collaborator is invoked once and the comment
\* collaborator is not invoked, the ticketing service configured or not: the
\* title "t" and the head "feature" hold no ticket key.
C7_EndToEnd ==
    E2EDone => /\ E2EResult
               /\ Count("postJiraComment") = 0
               /\ ExchangesOf("comment") = {}

C7_Witness ==
    /\ E2EDone
    /\ JiraConfigured(conf)
    /\ hostMatch(conf.jiraUrl[1]) # None
    /\ EmailConfigured(conf)
    /\ outcome = "success"

\* C8: after a non-2xx answer to the diff fetch or to either model call, and
\* with the provider key absent, the invocation has ended in an error with no
\* result, and no comment was posted and no email was sent.
C8_UpstreamFailureFatal ==
    ( \/ \E i \in 1..Len(requests) :
            /\ requests[i].op \in {"compare", "impact", "testgen"}
            /\ requests[i].status = "non2xx"
      \/ config # None /\ ~Truthy(conf.groqKey) ) =>
        /\ outcome = "error"
        /\ result = None
        /\ Count("postJiraComment") = 0
        /\ Count("sendImpactEmail") = 0
        /\ ExchangesOf("comment") = {}
        /\ ExchangesOf("sendMail") = {}

C8_Witness ==
    /\ \E i \in 1..Len(requests) :
            requests[i].op = "testgen" /\ requests[i].status = "non2xx"
    /\ analysis # None
    /\ outcome = "error"
    /\ errKind = "ModelError"

\* the shape section 3 of the specification gives the two model outputs
ConformsAnalysis(v) ==
    /\ v # None
    /\ v[1].risk # None
    /\ v[1].risk[1].score \in {"CRITICAL", "HIGH", "MEDIUM", "LOW"}
    /\ v[1].risk[1].reasoning # Undefined
    /\ v[1].keyChanges # None
    /\ v[1].technicalDetails # None

ConformsTestCases(v) == v # None /\ v[1].testCases # None

\* exchange i is a model call answered with a text that is not valid JSON
InvalidReply(i) ==
    /\ requests[i].op \in {"impact", "testgen"}
    /\ requests[i].status = "ok"
    /\ ~requests[i].reply[1].valid

\* exchange i is a model call answered with valid JSON of another shape
MisshapenReply(i) ==
    /\ requests[i].op \in {"impact", "testgen"}
    /\ requests[i].status = "ok"
    /\ requests[i].reply[1].valid
    /\ IF requests[i].op = "impact"
       THEN ~ConformsAnalysis(requests[i].reply[1].value)
       ELSE ~ConformsTestCases(requests[i].reply[1].value)

\* C9 as stated: a model response that is not valid JSON or violates the
\* expected shape never leads to a success result.
C9_ParseErrorFatalAsStated ==
    (\E i \in 1..Len(requests) : InvalidReply(i) \/ MisshapenReply(i)) =>
        outcome # "success"

\* C9 amended: a model response that is not valid JSON ends the invocation in
\* an error thrown by JSON.parse, with no result.
C9_InvalidJsonFatal ==
    (\E i \in 1..Len(requests) : InvalidReply(i)) =>
        /\ outcome = "error"
        /\ errKind = "SyntaxError"
        /\ result = None

C9_Witness ==
    /\ \E i \in 1..Len(requests) : requests[i].op = "testgen" /\ InvalidReply(i)
    /\ outcome = "error"

\* C10: for every parsed analysis object and test-case set with any of their
\* fields absent, comment composition, email rendering and result construction
\* raise nothing: the invocation ends in success, with the comment's risk
\* IDENTIFIED and the report's risk DEFAULT when the score is absent, and
\* testCaseCount 0 when testCases is absent.
C10_AbsentFieldsDefaulted ==
    /\ outcome # "error"
    /\ Done => outcome = "success"
    /\ (comment # None /\ (analysis[1].risk = None \/ analysis[1].risk[1].score = Undefined))
          => comment[1].risk = "IDENTIFIED"
    /\ (email # None /\ (analysis[1].risk = None \/ analysis[1].risk[1].score = Undefined))
          => email[1].html.risk = "DEFAULT"
    /\ (Done /\ testCases[1].testCases = None) => result[1].testCaseCount = Some(0)

C10_Witness ==
    /\ outcome = "success"
    /\ analysis = Some(AnalysisEmpty)
    /\ testCases = Some(TestsEmpty)
    /\ comment # None
    /\ email # None
    /\ result[1].testCaseCount = Some(0)

\* a pull request that carries base.repo, as the inbound event is documented to
HasBaseRepo == pull_request.base # None /\ pull_request.base[1].repo # None

\* a comment post was sent and answered non-2xx or not at all
FailedPost ==
    \E i \in 1..Len(requests) :
        requests[i].op = "comment" /\ requests[i].status # "ok"

\* C11: once the comment post has failed (non-2xx or network failure), nothing
\* is thrown by the comment stage: the invocation is at the email stage or past
\* it, the email collaborator is invoked, and the invocation ends in success
\* with the risk and testCaseCount of the parsed outputs. The only error that
\* can follow is the email rendering's own, for a pull request without base.repo.
C11_PostFailureNotPropagated ==
    FailedPost =>
        /\ pc \in {"email", "return"}
        /\ outcome = "error" =>
              (pc = "email" /\ errKind = "TypeError" /\ ~HasBaseRepo)
        /\ (pc = "return" \/ Done) => Count("sendImpactEmail") = 1
        /\ (Done /\ HasBaseRepo) =>
              /\ outcome = "success"
              /\ result = BuildResult(analysis, testCases).value

C11_Witness ==
    /\ \E i \in 1..Len(requests) :
          requests[i].op = "comment" /\ requests[i].status = "non2xx"
    /\ outcome = "success"
    /\ Count("sendImpactEmail") = 1
    /\ ExchangesOf("sendMail") # {}

\* the tree fetch was answered non-2xx
TreeFetchFailed ==
    \E i \in 1..Len(requests) :
        requests[i].op = "tree" /\ requests[i].status = "non2xx"

\* C12: after a non-2xx answer to the tree fetch nothing was thrown by it: the
\* tree is null, the invocation has gone on to the impact analysis, each model
\* call that was made carried an empty structure, and both model calls are made
\* before the later stages.
C12_TreeFailureSoft ==
    TreeFetchFailed =>
        /\ tree = None
        /\ pc # "tree"
        /\ \A i \in 1..Len(requests) :
              requests[i].op \in {"impact", "testgen"} =>
                  requests[i].arg.structure = <<>>
        /\ pc \in {"testgen", "jira", "email", "return"} => Count("summarizeImpact") = 1
        /\ pc \in {"jira", "email", "return"} => Count("generateTestCases") = 1

C12_Witness ==
    /\ TreeFetchFailed
    /\ outcome = "success"
    /\ ExchangesOf("impact") # {}
    /\ ExchangesOf("testgen") # {}

\* the ticket read was sent and answered non-2xx or not at all
TicketFetchFailed ==
    \E i \in 1..Len(requests) :
        requests[i].op = "getIssue" /\ requests[i].status # "ok"

MalformedJiraUrl == config # None /\ conf.jiraUrl = Some(JiraUrlBad)

\* C14: with a ticket URL in which no host can be found, no request is ever
\* sent to the ticketing service, no ticket context and no comment exist,
\* nothing is thrown by the ticket-context stage or the comment stage, and the
\* email collaborator is invoked once the comment stage is passed.
C14_MalformedUrlNoOp ==
    MalformedJiraUrl =>
        /\ \A i \in 1..Len(requests) : requests[i].service # "jira"
        /\ jiraTicket = None
        /\ comment = None
        /\ Count("postJiraComment") = 0
        /\ outcome = "error" => pc \notin {"ticket", "jira"}
        /\ (pc = "return" \/ (Done /\ pc = "email")) => Count("sendImpactEmail") = 1
        /\ (Done /\ HasBaseRepo /\ analysis # None /\ pc \in {"email", "return"})
              => outcome = "success"

C14_Witness ==
    /\ MalformedJiraUrl
    /\ JiraConfigured(conf)
    /\ jiraKey # None
    /\ Count("getJiraTicket") = 1
    /\ Count("sendImpactEmail") = 1
    /\ outcome = "success"

\* JIRA_URL, JIRA_EMAIL and JIRA_TOKEN are all set
AllJiraSettings ==
    conf.jiraUrl # None /\ Truthy(conf.jiraEmail) /\ Truthy(conf.jiraToken)

\* C15: a request to the ticketing service exists only if a ticket key was
\* detected and all three ticket settings are present. Once key detection has
\* run with no key found or a setting absent, neither ticket collaborator is
\* invoked, nothing is thrown by the ticket-context stage or the comment stage,
\* and the email collaborator is invoked once the comment stage is passed.
C15_TicketRequestsGuarded ==
    /\ (\E i \in 1..Len(requests) : requests[i].service = "jira")
          => (jiraKey # None /\ AllJiraSettings)
    /\ (config # None /\ pc \notin {"gate", "fields", "config", "ticket"}
          /\ (jiraKey = None \/ ~AllJiraSettings)) =>
          /\ Count("getJiraTicket") = 0
          /\ Count("postJiraComment") = 0
          /\ jiraTicket = None /\ comment = None
          /\ outcome = "error" => pc # "jira"
          /\ (pc = "return" \/ (Done /\ pc = "email")) => Count("sendImpactEmail") = 1
          /\ (Done /\ HasBaseRepo /\ analysis # None /\ pc \in {"email", "return"})
                => outcome = "success"

\* a key is found and JIRA_EMAIL is absent: the run ends in success, without
\* any request to the ticketing service
C15_Witness ==
    /\ config # None
    /\ jiraKey # None
    /\ conf.jiraUrl # None /\ Truthy(conf.jiraToken) /\ ~Truthy(conf.jiraEmail)
    /\ \A i \in 1..Len(requests) : requests[i].service # "jira"
    /\ Count("sendImpactEmail") = 1
    /\ outcome = "success"

----------------------------------------------------------------------------
(* Ticket-key detection on its own *)

TitleLower == <<"f","i","x"," ","a","b","-","1","2">>
TitleHyphen == <<"F","i","x","-","u","p">>
TitleTwo == <<"a","-","b","-","1">>
TitleDangling == <<"Q","A","-">>
HeadDigits == <<"1","2">>
BodyPlain == <<"x">>

KeyTitles == {None, Some(TitleT), Some(TitleProj), Some(TitleFix), Some(TitleLower),
              Some(TitleHyphen), Some(TitleTwo), Some(TitleDangling)}
KeyHeads == {HeadFeature, HeadFeatureX, HeadKey, HeadDigits}
KeyBodies == {None, Some(<<>>), Some(BodyKey), Some(BodyPlain)}

KeyEvents ==
    { [action |-> "closed",
       pull_request |-> Some(PullRequest(Some(TRUE), Base("master", TRUE), TRUE,
                                         [title |-> t, head |-> h, body |-> b])),
       repository |-> Repository] :
        t \in KeyTitles, h \in KeyHeads, b \in KeyBodies }

\* the state of an invocation right before agent.js:74, every optional service
\* configured
InitKey ==
    /\ payload \in KeyEvents
    /\ pc = "ticket"
    /\ outcome = "running"
    /\ errKind = "none"
    /\ result = None
    /\ config = Some(FullEnv)
    /\ jiraKey = None
    /\ jiraTicket = None
    /\ diff = <<>>
    /\ tree = None
    /\ analysis = None
    /\ testCases = None
    /\ comment = None
    /\ email = None
    /\ sync = None
    /\ sinks = NoSinks
    /\ peer = None
    /\ calls = <<>>
    /\ requests = <<>>

NextKey == LoadTicket

SpecKey == InitKey /\ [][NextKey]_vars

\* a letter, a hyphen and a digit stand next to each other in text t
ContainsPattern(t) ==
    \E i \in 2..(Len(t) - 1) : t[i] = "-" /\ IsLetter(t[i - 1]) /\ IsDigit(t[i + 1])

\* k is upper-case letters, a hyphen, digits
IsUpperKey(k) ==
    \E j \in 2..(Len(k) - 1) :
        /\ k[j] = "-"
        /\ \A i \in 1..(j - 1) : k[i] \in UpperLetters
        /\ \A i \in (j + 1)..Len(k) : IsDigit(k[i])

\* the upper-cased first match inside the one text t
KeyOfText(t) == Some(toUpperCase(jiraRegexMatch(t)[1]))

\* C16: the detected key is the first match in the title if the title holds
\* one, else the first match in the head branch name, else the first match in
\* the body, else none; it is reported in upper case; title "PROJ-123 Fix bug",
\* branch "feature/x" and an empty body give PROJ-123.
C16_KeyDetectionPriority ==
    pc = "diff" =>
        LET t == Interp(pull_request.title)
            h == pull_request.head[1].ref[1]
            b == IF pull_request.body = None THEN <<>> ELSE pull_request.body[1]
        IN  /\ jiraKey = IF ContainsPattern(t) THEN KeyOfText(t)
                         ELSE IF ContainsPattern(h) THEN KeyOfText(h)
                         ELSE IF ContainsPattern(b) THEN KeyOfText(b)
                         ELSE None
            /\ jiraKey # None => IsUpperKey(jiraKey[1])
            /\ (t = TitleProj /\ h = HeadFeatureX /\ b = <<>>)
                  => jiraKey = Some(<<"P","R","O","J","-","1","2","3">>)

\* the title and the branch both hold a key, in lower case in the branch
C16_Witness ==
    /\ pc = "diff"
    /\ pull_request.title = Some(TitleProj)
    /\ pull_request.head[1].ref[1] = HeadKey
    /\ jiraKey = Some(<<"P","R","O","J","-","1","2","3">>)

----------------------------------------------------------------------------
(* The self-reference filter on every diff text of the bound *)

DiffTokens == {DiffMarker, " ", "+code",
               "a/ImpactX_Agent/agent.js", "b/ImpactX_Agent/agent.js"}

MaxDiffLen == 4

RawDiffs == SeqsUpTo(DiffTokens, MaxDiffLen)

\* the state of an invocation right before agent.js:113, for every diff text
\* of the bound as the answer of the compare endpoint
InitDiff ==
    /\ payload = E2EEvent
    /\ pc = "impact"
    /\ outcome = "running"
    /\ errKind = "none"
    /\ result = None
    /\ config = Some(FullEnv)
    /\ jiraKey = None
    /\ jiraTicket = None
    /\ diff \in RawDiffs
    /\ tree = Some(TreeOf(UpstreamTree))
    /\ analysis = None
    /\ testCases = None
    /\ comment = None
    /\ email = None
    /\ sync = None
    /\ sinks = NoSinks
    /\ peer = None
    /\ calls = <<"getGitHubDiff", "getGitHubTree">>
    /\ requests = << Exchange("github", "compare", <<>>, "ok", None),
                     Exchange("github", "tree", <<>>, "ok", None) >>

NextDiff == SummarizeImpact \/ GenerateTestCases

SpecDiff == InitDiff /\ [][NextDiff]_vars

\* the exchanges of the two model calls
ModelCalls == {i \in 1..Len(requests) : requests[i].op \in {"impact", "testgen"}}

\* C17: filtering is idempotent: for the raw diff, and for the diff text either
\* model call embedded in its prompt, filtering the filtered text returns it
\* unchanged.
C17_FilterIdempotent ==
    /\ filteredDiff(filteredDiff(diff)) = filteredDiff(diff)
    /\ \A i \in ModelCalls :
          filteredDiff(requests[i].arg.diff) = requests[i].arg.diff

\* two segments are taken out of the raw diff, one is left, and both prompts
\* were sent
C17_Witness ==
    /\ Cardinality({k \in 1..Len(split(diff)) : ~KeepSegment(split(diff)[k])}) = 2
    /\ Len(filteredDiff(diff)) = 1
    /\ filteredDiff(diff) # diff
    /\ \E i \in ModelCalls : requests[i].op = "testgen"

\* C18: the diff text embedded in the impact-analysis prompt and in the
\* test-case prompt is the filtered raw diff: none of its per-file segments
\* holds a/ImpactX_Agent/ or b/ImpactX_Agent/.
C18_PromptsFiltered ==
    \A i \in ModelCalls :
        /\ \A k \in 1..Len(requests[i].arg.diff) :
              requests[i].arg.diff[k] \notin SelfTokens
        /\ LET segs == split(requests[i].arg.diff)
           IN  \A k \in 1..Len(segs) :
                 \A j \in 1..Len(segs[k]) : segs[k][j] \notin SelfTokens

\* the raw diff names the directory on the new side only, and both prompts
\* were sent
C18_Witness ==
    /\ \E k \in 1..Len(diff) : diff[k] = "b/ImpactX_Agent/agent.js"
    /\ \A k \in 1..Len(diff) : diff[k] # "a/ImpactX_Agent/agent.js"
    /\ \E i \in ModelCalls : requests[i].op = "impact"
    /\ \E i \in ModelCalls : requests[i].op = "testgen"

----------------------------------------------------------------------------
(* The test-case synchronization stage of the pipeline variant in           *)
(* src/unnamed/part_004 (handleAioTestCaseCreation).  The function it calls, *)
(* impactLogic.generateAndCreateAioTestCases, is modelled from section 4.8   *)
(* of the specification.                                                     *)

\* part_004:59-61 sets the three settings; the guard at part_004:406 is written
\* for any of them being unset
AioFull == [aioBaseUrl |-> "https://aio", aioApiKey |-> "akey", aioProjectId |-> "10000"]

AioEnvs ==
    { AioFull,
      [AioFull EXCEPT !.aioBaseUrl = Undefined],
      [AioFull EXCEPT !.aioApiKey = Undefined],
      [AioFull EXCEPT !.aioProjectId = Undefined] }

\* the config object of part_004:50-69
SyncEnv(aio) ==
    [f \in DOMAIN FullEnv \cup DOMAIN aio |->
        IF f \in DOMAIN aio THEN aio[f] ELSE FullEnv[f]]

\* !config.aioBaseUrl || !config.aioApiKey || !config.aioProjectId is false
AioConfigured(cfg) ==
    Truthy(cfg.aioBaseUrl) /\ Truthy(cfg.aioApiKey) /\ Truthy(cfg.aioProjectId)

MaxSyncItems == 3

\* the i-th test case the synchronizer generated
SyncCase(i, priority) ==
    [id |-> i, title |-> "case", steps |-> Some(<<"step">>),
     expectedResult |-> "works", priority |-> priority]

\* the generated sets of the bound
SyncSets ==
    UNION { { [i \in 1..n |-> SyncCase(i, f[i])] : f \in [1..n -> {"HIGH", Undefined}] } :
            n \in 0..MaxSyncItems }

\* the creation payload {project, title, description = expectedResult, steps}
\* of one test case; the priority enumeration of the target service is not given
CreationPayload(projectId, tc) ==
    [id |-> tc.id, project |-> projectId, title |-> tc.title,
     description |-> tc.expectedResult, steps |-> tc.steps]

\* variant: the batch stops at the first item that fails
SyncAttemptsUntilFailure(gen, sts, projectId) ==
    LET bad == {i \in 1..Len(gen) : sts[i] # "ok"}
        last == IF bad = {} THEN Len(gen)
                ELSE CHOOSE k \in bad : \A m \in bad : k <= m
    IN  [i \in 1..last |->
            Exchange("aio", "create", CreationPayload(projectId, gen[i]), sts[i], None)]

\* the creation requests of one run of the synchronizer: one per generated
\* test case, in generated order, whatever the earlier ones were answered
SyncAttempts(gen, sts, projectId) ==
    [i \in 1..Len(gen) |->
        Exchange("aio", "create", CreationPayload(projectId, gen[i]), sts[i], None)]

RECURSIVE SyncCreated(_, _)
\* what the synchronizer returns: the test cases whose creation succeeded
SyncCreated(gen, sts) ==
    IF Len(gen) = 0 THEN <<>>
    ELSE (IF sts[1] = "ok" THEN <<gen[1]>> ELSE <<>>)
            \o SyncCreated(Tail(gen), Tail(sts))

\* variant: the catch of handleAioTestCaseCreation rethrows
AioRethrow(kind) == kind

\* part_004:443-446: what leaves handleAioTestCaseCreation of an error thrown
\* inside its try block: the catch logs it and throws nothing
AioCatch(kind) == "none"

\* part_004:98 with handleAioTestCaseCreation, part_004:400-448
HandleAioTestCaseCreation ==
    /\ pc = "aio" /\ outcome = "running"
    /\ IF ~AioConfigured(conf) \/ ~Truthy(conf.groqKey)
       THEN /\ Goto("email")
            /\ UNCHANGED <<sync, calls, requests>>
       ELSE /\ calls' = Append(calls, "generateAndCreateAioTestCases")
            /\ \E st \in Statuses :
                 LET generation == Exchange("groq", "syncgen",
                                            TestCasePrompt(diff, tree), st, None)
                 IN  IF ModelThrows(st) # "none"
                     THEN /\ requests' = Append(requests, generation)
                          /\ UNCHANGED sync
                          /\ IF AioCatch(ModelThrows(st)) = "none" THEN Goto("email")
                             ELSE Throw(AioCatch(ModelThrows(st)))
                     ELSE \E gen \in SyncSets :
                            \E sts \in [1..Len(gen) -> Statuses] :
                              /\ requests' = Append(requests, generation)
                                    \o SyncAttempts(gen, sts, conf.aioProjectId)
                              /\ sync' = Some([generated |-> gen,
                                               created |-> SyncCreated(gen, sts)])
                              /\ Goto("email")
    /\ UNCHANGED <<payload, config, jiraKey, jiraTicket, diff, tree, analysis,
                   testCases, comment, email>>
    /\ UNCHANGED <<sinks, peer>>

\* the state of an invocation right after part_004:95: the comment was composed
\* and its post was answered in any of the three ways
InitSync ==
    /\ payload \in ParsedEvents
    /\ pc = "aio"
    /\ outcome = "running"
    /\ errKind = "none"
    /\ result = None
    /\ config \in {Some(SyncEnv(a)) : a \in AioEnvs}
    /\ jiraKey = None
    /\ jiraTicket = None
    /\ diff = DiffPlain
    /\ tree = Some(TreeOf(UpstreamTree))
    /\ analysis = Some(AnalysisLow)
    /\ testCases = Some(TestsTwo)
    /\ comment = ComposeComment(analysis, testCases, payload.action,
                                payload.pull_request[1]).body
    /\ email = None
    /\ sync = None
    /\ sinks = NoSinks
    /\ peer = None
    /\ calls = <<"getGitHubDiff", "getGitHubTree", "summarizeImpact",
                 "generateTestCases", "postJiraComment">>
    /\ \E ps \in Statuses :
         requests =
           << Exchange("github", "compare", <<>>, "ok", None),
              Exchange("github", "tree", <<>>, "ok", None),
              Exchange("groq", "impact", ImpactPrompt(diff, tree, None), "ok",
                       Some(Json(analysis))),
              Exchange("groq", "testgen", TestCasePrompt(diff, tree), "ok",
                       Some(Json(testCases))),
              CommentExchange(TargetUrl(hostMatch(JiraUrlGood)[1].whole,
                                        DetectJiraKey(payload.pull_request[1])[1]),
                              comment[1], ps)[1] >>

NextSync == HandleAioTestCaseCreation \/ SendEmail \/ Return

SpecSync == InitSync /\ [][NextSync]_vars

IsCreate(x) == x.op = "create"

\* the creation requests made so far, in order
Creations == SelectSeq(requests, IsCreate)


\* C19: when the synchronizer has returned, every generated test case has
\* exactly one creation request, in generated order, whatever the earlier
\* requests were answered, and the returned sequence holds exactly the test
\* cases whose request succeeded, in order; with three test cases of which the
\* second fails, the first and the third are requested and two are returned.
C19_SyncIsolatesFailures ==
    sync # None =>
        LET gen == sync[1].generated
            created == sync[1].created
        IN  /\ Len(Creations) = Len(gen)
            /\ \A i \in 1..Len(gen) : Creations[i].arg.id = gen[i].id
            /\ Len(created) =
                 Cardinality({i \in 1..Len(gen) : Creations[i].status = "ok"})
            /\ \A k \in 1..Len(created) :
                 /\ created[k] = gen[created[k].id]
                 /\ Creations[created[k].id].status = "ok"
                 /\ k > 1 => created[k - 1].id < created[k].id
            /\ ( /\ Len(gen) = 3
                 /\ Creations[1].status = "ok"
                 /\ Creations[2].status # "ok"
                 /\ Creations[3].status = "ok" )
                  => (Len(created) = 2 /\ created[1].id = 1 /\ created[2].id = 3)

C19_Witness ==
    /\ sync # None
    /\ Len(sync[1].generated) = 3
    /\ Len(Creations) = 3
    /\ Creations[1].status = "ok"
    /\ Creations[2].status = "non2xx"
    /\ Creations[3].status = "ok"
    /\ Len(sync[1].created) = 2

\* C20: with a target-service setting missing, the synchronizer is not called,
\* no creation request is made and nothing is returned; with an empty generated
\* set no creation request is made and the returned sequence is empty; nothing
\* is thrown by the synchronization stage, also when the synchronizer throws:
\* the email collaborator is invoked afterwards and the invocation ends in
\* success.
C20_SyncNonFatal ==
    /\ (pc # "aio" /\ ~AioConfigured(conf)) =>
          /\ Count("generateAndCreateAioTestCases") = 0
          /\ Len(Creations) = 0
          /\ sync = None
    /\ (sync # None /\ Len(sync[1].generated) = 0) =>
          /\ Len(Creations) = 0
          /\ sync[1].created = <<>>
    /\ outcome # "error"
    /\ pc = "return" => Count("sendImpactEmail") = 1
    /\ Done => /\ outcome = "success"
               /\ Count("sendImpactEmail") = 1
               /\ result = BuildResult(analysis, testCases).value

\* the synchronizer threw and the invocation ended in success
C20_Witness ==
    /\ Count("generateAndCreateAioTestCases") = 1
    /\ \E i \in 1..Len(requests) :
          requests[i].op = "syncgen" /\ requests[i].status = "non2xx"
    /\ sync = None
    /\ outcome = "success"
    /\ Count("sendImpactEmail") = 1

----------------------------------------------------------------------------
(* sendImpactEmail on every report input, emailService.js:7-224 *)

RepoNamed == Some([name |-> "repo", full_name |-> "org/repo"])
\* the repository object of the email test: { full_name: 'org/repo' }
RepoUnnamed == Some([name |-> Undefined, full_name |-> "org/repo"])

UrlOfPull == "https://github.example/org/repo/pull/1"

\* the pull request {} of the incomplete-configuration test
EmptyPull ==
    [ number |-> Undefined, merged |-> None, base |-> None, head |-> None,
      title |-> None, body |-> None, html_url |-> Undefined ]

\* pull-request metadata with the title, the URL and the repository name
\* present or absent
ReportPulls ==
    { [ PullRequest(Some(TRUE), Some([ref |-> "master", repo |-> r]), TRUE,
                    [title |-> t, head |-> HeadFeature, body |-> None])
        EXCEPT !.html_url = u ] :
        r \in {None, RepoUnnamed, RepoNamed},
        t \in {None, Some(TitleT)},
        u \in {Undefined, UrlOfPull} }
    \cup {EmptyPull}

\* test cases with the title, the expected result and the priority present or absent
ReportCases ==
    { [title |-> t, steps |-> Some(<<"step a">>), expectedResult |-> e, priority |-> p] :
        t \in {Undefined, "case"}, e \in {Undefined, "works"}, p \in {Undefined, "HIGH"} }

ReportCaseSets ==
    {TestsEmpty, TestsNone} \cup {TestCaseSet(Some(<<c>>)) : c \in ReportCases}

\* the configuration { EMAIL_HOST: 'host' } of the incomplete-configuration test
EmailHostOnly == [EmailNone EXCEPT !.EMAIL_HOST = "smtp.x"]

\* the state of an invocation right before agent.js:128, no ticket key having
\* been found, for every report input and every email configuration
InitReport ==
    /\ payload \in { [action |-> "closed", pull_request |-> Some(p),
                      repository |-> Repository] : p \in ReportPulls }
    /\ pc = "email"
    /\ outcome = "running"
    /\ errKind = "none"
    /\ result = None
    /\ config \in { Some(MkEnv("ghtok", "gkey", JiraNone, m)) :
                       m \in EmailEnvs \cup {EmailHostOnly} }
    /\ jiraKey = None
    /\ jiraTicket = None
    /\ diff = DiffPlain
    /\ tree = Some(TreeOf(UpstreamTree))
    /\ analysis \in {Some(a) : a \in AllAnalyses}
    /\ testCases \in {Some(t) : t \in ReportCaseSets}
    /\ comment = None
    /\ email = None
    /\ sync = None
    /\ sinks = NoSinks
    /\ peer = None
    /\ calls = <<"getGitHubDiff", "getGitHubTree", "summarizeImpact", "generateTestCases">>
    /\ requests =
         << Exchange("github", "compare", <<>>, "ok", None),
            Exchange("github", "tree", <<>>, "ok", None),
            Exchange("groq", "impact", ImpactPrompt(diff, tree, None), "ok",
                     Some(Json(analysis))),
            Exchange("groq", "testgen", TestCasePrompt(diff, tree), "ok",
                     Some(Json(testCases))) >>

NextReport ==
    \/ SendEmail
    \/ Return

SpecReport == InitReport /\ [][NextReport]_vars

\* sendImpactEmail has returned or thrown
EmailStageOver == pc = "return" \/ (pc = "email" /\ outcome = "error")

\* the markup holds the text "undefined" where a field was interpolated
EmitsUndefined(html) ==
    \/ html.number = Undefined
    \/ html.repoName = Undefined
    \/ html.title = None
    \/ html.headRef = None
    \/ html.baseRef = Undefined
    \/ html.url = Undefined
    \/ \E i \in 1..Len(html.rows) :
         html.rows[i].title = Undefined \/ html.rows[i].expected = Undefined

\* C21: the report never contains an undefined or null literal: for every
\* combination of present and absent fields of the pull-request metadata, the
\* analysis and the test cases, the report compiler produces the HTML and
\* every absent field is replaced by a default in it.
C21_NoUndefinedInReport ==
    (EmailStageOver /\ EmailConfigured(conf))
        => /\ email # None
           /\ ~EmitsUndefined(email[1].html)

\* one of the four email settings sendImpactEmail asks for is absent
EmailSettingAbsent ==
    \E f \in {"EMAIL_HOST", "EMAIL_USER", "EMAIL_PASS", "EMAIL_TO"} : conf[f] = Undefined

\* C22: when the email host, user, password or recipient is absent,
\* sendImpactEmail returns without rendering or sending anything and without
\* raising, for every pull request, analysis and test-case set (the empty
\* objects included), and the invocation ends in success.
C22_IncompleteEmailConfigNoOp ==
    EmailSettingAbsent
        => /\ ExchangesOf("sendMail") = {}
           /\ email = None
           /\ outcome # "error"
           /\ (EmailStageOver => pc = "return")
           /\ (Done => outcome = "success" /\ result = BuildResult(analysis, testCases).value)

\* the call of the test: { EMAIL_HOST: 'host' }, {}, {}, {} has returned and
\* the invocation has ended
C22_Witness ==
    /\ conf.EMAIL_HOST # Undefined /\ conf.EMAIL_USER = Undefined
    /\ conf.EMAIL_PASS = Undefined /\ conf.EMAIL_TO = Undefined
    /\ pull_request = EmptyPull
    /\ analysis = Some(AnalysisEmpty)
    /\ testCases = Some(TestsEmpty)
    /\ Count("sendImpactEmail") = 1
    /\ outcome = "success"

----------------------------------------------------------------------------
(* Attempts, order and outcomes of one invocation *)

\* the collaborators that call an external service, agent.js:89-128 and 213
ExternalCalls ==
    { "getJiraTicket", "getGitHubDiff", "getGitHubTree", "summarizeImpact",
      "generateTestCases", "postJiraComment", "sendImpactEmail" }

\* the requests they send
ExternalOps == {"getIssue", "compare", "tree", "impact", "testgen", "comment", "sendMail"}

\* C23: every external call is attempted at most once per invocation, also
\* after it failed: the diff fetch, tree fetch, ticket fetch, impact-analysis
\* call, test-case-generation call, comment post and email send each occur at
\* most one time.
C23_SingleAttempt ==
    /\ \A name \in ExternalCalls : Count(name) <= 1
    /\ \A op \in ExternalOps : Cardinality(ExchangesOf(op)) <= 1
    /\ \A i \in 1..Len(requests) : requests[i].op \in ExternalOps
    /\ \A i \in 1..Len(calls) : calls[i] \in ExternalCalls

\* a run in which all seven calls were made, the ticket fetch, the comment
\* post and the email send failed, and the run is over
C23_Witness ==
    /\ outcome = "success"
    /\ \A op \in ExternalOps : Cardinality(ExchangesOf(op)) = 1
    /\ \A op \in {"getIssue", "comment", "sendMail"} :
         \A i \in ExchangesOf(op) : requests[i].status = "networkError"

\* the order of the stages as the control-flow sentence gives it
StageOrderAsStated ==
    << "getGitHubDiff", "getGitHubTree", "getJiraTicket", "summarizeImpact",
       "generateTestCases", "postJiraComment", "generateAndCreateAioTestCases",
       "sendImpactEmail" >>

\* the order of the awaited calls in processAgentTask, agent.js:89-128 (the
\* synchronizer call between the comment and the email is part_004:97-98)
StageOrder ==
    << "getJiraTicket", "getGitHubDiff", "getGitHubTree", "summarizeImpact",
       "generateTestCases", "postJiraComment", "generateAndCreateAioTestCases",
       "sendImpactEmail" >>

RankIn(order, name) == CHOOSE i \in 1..Len(order) : order[i] = name

\* the calls made so far were made in the given order, none twice
CallsFollow(order) ==
    \A i, j \in 1..Len(calls) :
        i < j => RankIn(order, calls[i]) < RankIn(order, calls[j])

\* the stages no run leaves out, and the request each one sends
MandatoryStages ==
    { [call |-> "getGitHubDiff", op |-> "compare"],
      [call |-> "getGitHubTree", op |-> "tree"],
      [call |-> "summarizeImpact", op |-> "impact"],
      [call |-> "generateTestCases", op |-> "testgen"] }

\* a stage has started only when every mandatory stage before it in the given
\* order was called and its request was answered
PreviousCompleted(order) ==
    \A i \in 1..Len(calls) :
        \A m \in MandatoryStages :
            RankIn(order, m.call) < RankIn(order, calls[i])
                => /\ \E j \in 1..(i - 1) : calls[j] = m.call
                   /\ \E k \in ExchangesOf(m.op) : requests[k].status \in Statuses

\* the analysis requests carry the fetched diff after the self-reference filter
FilterBetweenFetchAndAnalysis ==
    /\ \A k \in ExchangesOf("impact") :
         requests[k].arg.diff = substring(filteredDiff(diff), ImpactDiffLimit)
    /\ \A k \in ExchangesOf("testgen") :
         requests[k].arg.diff = substring(filteredDiff(diff), TestDiffLimit)

\* the email call is the last call of a run
EmailLast ==
    \A i \in 1..Len(calls) : calls[i] = "sendImpactEmail" => i = Len(calls)

\* C24 as stated: the stages run strictly sequentially in the order source
\* fetch (diff, tree), self-reference filter, optional ticket-context load,
\* impact analysis, test-case generation, ticket comment and test-case
\* synchronization, report email; the ticket-context load happens after the
\* source fetch and the email is sent last.
C24_StageOrderAsStated ==
    /\ CallsFollow(StageOrderAsStated)
    /\ PreviousCompleted(StageOrderAsStated)
    /\ FilterBetweenFetchAndAnalysis
    /\ EmailLast

\* C24: the stages run strictly sequentially in the order optional
\* ticket-context load, source fetch (diff, tree), self-reference filter,
\* impact analysis, test-case generation, ticket comment and test-case
\* synchronization, report email: no stage starts before the previous stage
\* has completed, the ticket-context load happens before the source fetch and
\* the email is sent last.
C24_StageOrder ==
    /\ CallsFollow(StageOrder)
    /\ PreviousCompleted(StageOrder)
    /\ FilterBetweenFetchAndAnalysis
    /\ EmailLast

\* a run that made every call of agent.js and ended in success
C24_Witness ==
    /\ outcome = "success"
    /\ calls = << "getJiraTicket", "getGitHubDiff", "getGitHubTree", "summarizeImpact",
                  "generateTestCases", "postJiraComment", "sendImpactEmail" >>
    /\ diff = DiffWithSelf

----------------------------------------------------------------------------
(* The two sinks side by side: handleJiraPosting and handleAioTestCaseCreation
   of part_004:94-98 started together, their awaited steps taken in any order *)

\* both sinks are still to run
SinksTodo == [jira |-> "todo", aio |-> "todo", generated |-> <<>>, created |-> <<>>]

SinkEnvs ==
    {SyncEnv(a) : a \in AioEnvs} \cup {[SyncEnv(AioFull) EXCEPT !.jiraToken = Undefined]}

\* the state of an invocation right after part_004:90, both model outputs parsed
InitSinks ==
    /\ payload \in ParsedEvents
    /\ pc = "sinks"
    /\ outcome = "running"
    /\ errKind = "none"
    /\ result = None
    /\ config \in {Some(e) : e \in SinkEnvs}
    /\ jiraKey = None
    /\ jiraTicket = None
    /\ diff = DiffPlain
    /\ tree = Some(TreeOf(UpstreamTree))
    /\ analysis = Some(AnalysisLow)
    /\ testCases = Some(TestsTwo)
    /\ comment = None
    /\ email = None
    /\ sync = None
    /\ sinks = SinksTodo
    /\ peer = None
    /\ calls = <<"getGitHubDiff", "getGitHubTree", "summarizeImpact", "generateTestCases">>
    /\ requests =
         << Exchange("github", "compare", <<>>, "ok", None),
            Exchange("github", "tree", <<>>, "ok", None),
            Exchange("groq", "impact", ImpactPrompt(diff, tree, None), "ok",
                     Some(Json(analysis))),
            Exchange("groq", "testgen", TestCasePrompt(diff, tree), "ok",
                     Some(Json(testCases))) >>

\* the comment sink: handleJiraPosting from its call to its return
SinkComment ==
    /\ sinks.jira = "todo"
    /\ JiraPosting("sinks", "sinks")
    /\ sinks' = [sinks EXCEPT !.jira = "done"]

\* the synchronization sink up to the answer to its generation request,
\* part_004:400-436
SinkSyncStart ==
    /\ pc = "sinks" /\ outcome = "running"
    /\ sinks.aio = "todo"
    /\ IF ~AioConfigured(conf) \/ ~Truthy(conf.groqKey)
       THEN /\ sinks' = [sinks EXCEPT !.aio = "done"]
            /\ Goto("sinks")
            /\ UNCHANGED <<sync, calls, requests>>
       ELSE /\ calls' = Append(calls, "generateAndCreateAioTestCases")
            /\ \E st \in Statuses :
                 /\ requests' = Append(requests,
                                       Exchange("groq", "syncgen",
                                                TestCasePrompt(diff, tree), st, None))
                 /\ IF ModelThrows(st) # "none"
                    THEN /\ UNCHANGED sync
                         /\ sinks' = [sinks EXCEPT !.aio = "done"]
                         /\ IF AioCatch(ModelThrows(st)) = "none" THEN Goto("sinks")
                            ELSE Throw(AioCatch(ModelThrows(st)))
                    ELSE \E gen \in SyncSets :
                           /\ Goto("sinks")
                           /\ IF Len(gen) = 0
                              THEN /\ sync' = Some([generated |-> gen, created |-> <<>>])
                                   /\ sinks' = [sinks EXCEPT !.aio = "done"]
                              ELSE /\ UNCHANGED sync
                                   /\ sinks' = [sinks EXCEPT !.aio = "creating",
                                                             !.generated = gen]
    /\ UNCHANGED <<payload, config, jiraKey, jiraTicket, diff, tree, analysis,
                   testCases, comment, email, peer>>

\* the synchronization sink sends the creation request of its next test case
SinkSyncCreate ==
    /\ pc = "sinks" /\ outcome = "running"
    /\ sinks.aio = "creating"
    /\ LET gen == sinks.generated
           i == Len(Creations) + 1
       IN  \E st \in Statuses :
             LET created == sinks.created \o SyncCreated(<<gen[i]>>, <<st>>)
             IN  /\ requests' = requests
                       \o SyncAttempts(<<gen[i]>>, <<st>>, conf.aioProjectId)
                 /\ IF i = Len(gen)
                    THEN /\ sync' = Some([generated |-> gen, created |-> created])
                         /\ sinks' = [sinks EXCEPT !.aio = "done", !.created = created]
                    ELSE /\ UNCHANGED sync
                         /\ sinks' = [sinks EXCEPT !.created = created]
    /\ Goto("sinks")
    /\ UNCHANGED <<payload, config, jiraKey, jiraTicket, diff, tree, analysis,
                   testCases, comment, email, calls, peer>>

\* both sinks have returned: the invocation goes on at part_004:100
SinksJoin ==
    /\ pc = "sinks" /\ outcome = "running"
    /\ sinks.jira = "done" /\ sinks.aio = "done"
    /\ Goto("email")
    /\ UNCHANGED <<payload, data, calls, requests, sync, sinks, peer>>

NextSinks ==
    \/ SinkComment
    \/ SinkSyncStart
    \/ SinkSyncCreate
    \/ SinksJoin
    \/ SendEmail
    \/ Return

SpecSinks == InitSinks /\ [][NextSinks]_vars

\* both sinks have returned
SinksJoined == pc \in {"email", "return"}

\* what the services answered to the creation requests, in order
CreationAnswers == [i \in 1..Len(Creations) |-> Creations[i].status]

\* the comment request handleJiraPosting sends when it runs alone
CommentAlone(st) ==
    LET cc == ComposeComment(analysis, testCases, payload.action, pull_request)
    IN  CommentExchange(TargetUrl(hostMatch(conf.jiraUrl[1])[1].whole,
                                  DetectJiraKey(pull_request)[1]),
                        cc.body[1], st)[1]

----------------------------------------------------------------------------
(* Two invocations of processAgentTask for the same event, interleaved at
   their awaits *)

\* the constants and variables declared inside processAgentTask, agent.js:14-134,
\* and what the invocation has called and sent so far
Locals ==
    [ payload |-> payload, pc |-> pc, outcome |-> outcome, errKind |-> errKind,
      result |-> result, config |-> config, jiraKey |-> jiraKey,
      jiraTicket |-> jiraTicket, diff |-> diff, tree |-> tree, analysis |-> analysis,
      testCases |-> testCases, comment |-> comment, email |-> email, calls |-> calls,
      requests |-> requests, sync |-> sync, sinks |-> sinks ]

\* variant: the parsed analysis is kept in a variable of the module that every
\* invocation writes and reads
ResumeSharedAnalysis(name, left, suspended) ==
    IF name = "analysis" THEN left ELSE suspended

\* the value the local name has when an invocation resumes after an await: the
\* one it was suspended with, whatever the invocation that ran meanwhile left
Resume(name, left, suspended) == suspended

\* the event loop resumes the other invocation at its await
SwitchInvocation ==
    /\ peer # None
    /\ peer' = Some(Locals)
    /\ payload' = Resume("payload", payload, peer[1].payload)
    /\ pc' = Resume("pc", pc, peer[1].pc)
    /\ outcome' = Resume("outcome", outcome, peer[1].outcome)
    /\ errKind' = Resume("errKind", errKind, peer[1].errKind)
    /\ result' = Resume("result", result, peer[1].result)
    /\ config' = Resume("config", config, peer[1].config)
    /\ jiraKey' = Resume("jiraKey", jiraKey, peer[1].jiraKey)
    /\ jiraTicket' = Resume("jiraTicket", jiraTicket, peer[1].jiraTicket)
    /\ diff' = Resume("diff", diff, peer[1].diff)
    /\ tree' = Resume("tree", tree, peer[1].tree)
    /\ analysis' = Resume("analysis", analysis, peer[1].analysis)
    /\ testCases' = Resume("testCases", testCases, peer[1].testCases)
    /\ comment' = Resume("comment", comment, peer[1].comment)
    /\ email' = Resume("email", email, peer[1].email)
    /\ calls' = Resume("calls", calls, peer[1].calls)
    /\ requests' = Resume("requests", requests, peer[1].requests)
    /\ sync' = Resume("sync", sync, peer[1].sync)
    /\ sinks' = Resume("sinks", sinks, peer[1].sinks)

\* the webhook delivery both invocations are given
TwiceDelivered == CHOOSE e \in ParsedEvents : e.action = "closed"

\* what the services answer in the runs of two invocations
TwoAnalysisAnswers == {Json(Some(AnalysisLow)), Json(Some(AnalysisFull))}
TwoTestCaseAnswers == {Json(Some(TestsNone)), Json(Some(TestsTwo))}

AnswersOfTwo ==
    /\ diff \in {<<>>, DiffPlain}
    /\ \A i \in 1..Len(requests) :
         LET x == requests[i]
         IN  /\ x.status \in {"ok", "non2xx"}
             /\ x.op = "sendMail" => x.status = "ok"
             /\ (x.op = "impact" /\ x.status = "ok") => x.reply[1] \in TwoAnalysisAnswers
             /\ (x.op = "testgen" /\ x.status = "ok") => x.reply[1] \in TwoTestCaseAnswers

\* both invocations right after agent.js:71, the configuration read from the
\* same process.env, the second one suspended
InitTwo ==
    /\ payload = TwiceDelivered
    /\ pc = "ticket"
    /\ outcome = "running"
    /\ errKind = "none"
    /\ result = None
    /\ config = Some(FullEnv)
    /\ jiraKey = None
    /\ jiraTicket = None
    /\ diff = <<>>
    /\ tree = None
    /\ analysis = None
    /\ testCases = None
    /\ comment = None
    /\ email = None
    /\ sync = None
    /\ sinks = NoSinks
    /\ calls = <<>>
    /\ requests = <<>>
    /\ peer = Some(Locals)

NextTwo ==
    \/ LoadTicket /\ AnswersOfTwo'
    \/ FetchDiff /\ AnswersOfTwo'
    \/ FetchTree /\ AnswersOfTwo'
    \/ SummarizeImpact /\ AnswersOfTwo'
    \/ GenerateTestCases /\ AnswersOfTwo'
    \/ HandleJiraPosting /\ AnswersOfTwo'
    \/ SendEmail /\ AnswersOfTwo'
    \/ Return
    \/ SwitchInvocation

SpecTwo == InitTwo /\ [][NextTwo]_vars

\* the parsed reply of the invocation's own request op, None when there is none
OwnParsed(l, op) ==
    LET own == {i \in 1..Len(l.requests) :
                   l.requests[i].op = op /\ l.requests[i].status = "ok"}
    IN  IF own = {} THEN None
        ELSE JSONparse(l.requests[CHOOSE i \in own : TRUE].reply[1]).value

\* how often the invocation sent the request op
OwnCount(l, op) == Cardinality({i \in 1..Len(l.requests) : l.requests[i].op = op})

\* the invocation with locals l has done and returned what it does alone
AsAlone(l) ==
    /\ \A op \in ExternalOps : OwnCount(l, op) <= 1
    /\ l.outcome = "success" =>
          /\ \A op \in ExternalOps : OwnCount(l, op) = 1
          /\ l.result = BuildResult(OwnParsed(l, "impact"), OwnParsed(l, "testgen")).value
          /\ l.comment = ComposeComment(OwnParsed(l, "impact"), OwnParsed(l, "testgen"),
                                        l.payload.action, l.payload.pull_request[1]).body
    /\ l.outcome = "error" =>
          /\ l.errKind \in {"UpstreamError", "ModelError"}
          /\ l.requests[Len(l.requests)].status = "non2xx"
          /\ l.requests[Len(l.requests)].op \in {"compare", "impact", "testgen"}
    /\ l.outcome \in {"running", "success", "error"}

\* C26: two concurrent invocations for the same pull-request event are not
\* deduplicated and share no mutable state: under every interleaving each
\* invocation makes its own fetch, analysis, comment post and email send (two
\* comments and two emails result) and returns the PipelineResult it returns
\* when run alone on the answers it got.
C26_ConcurrentInvocationsIndependent ==
    /\ AsAlone(Locals)
    /\ AsAlone(peer[1])
    /\ (outcome = "success" /\ peer[1].outcome = "success") =>
          /\ OwnCount(Locals, "comment") + OwnCount(peer[1], "comment") = 2
          /\ OwnCount(Locals, "sendMail") + OwnCount(peer[1], "sendMail") = 2

\* both invocations have ended in success, one with the risk LOW and the other
\* with the risk HIGH and another number of test cases, each as it was answered
C26_Witness ==
    /\ outcome = "success" /\ result[1].risk = Some("LOW")
    /\ peer[1].outcome = "success" /\ peer[1].result[1].risk = Some("HIGH")
    /\ peer[1].result[1].testCaseCount # result[1].testCaseCount

----------------------------------------------------------------------------
(* The value processAgentTask returns *)

\* the number of test cases in the parsed answer of the model
GeneratedCount == IF testCases[1].testCases = None THEN 0 ELSE Len(testCases[1].testCases[1])

\* the comment post or the email send failed
SinkFailed ==
    \E i \in 1..Len(requests) :
        requests[i].op \in {"comment", "sendMail"} /\ requests[i].status # "ok"

\* C27: every value returned by processAgentTask has status skipped or
\* success and a failure is thrown, never returned: a skipped result carries
\* no risk and no testCaseCount; a success result carries the risk score of
\* the parsed impact analysis and the number of test cases the model
\* generated, however many of them the comment shows and whether or not the
\* comment post or the email send failed.
C27_ReturnedValue ==
    /\ result # None <=> outcome \in {"skipped", "success"}
    /\ outcome = "error" => errKind # "none"
    /\ outcome = "skipped" =>
          /\ result[1].status = "skipped"
          /\ result[1].risk = None
          /\ result[1].testCaseCount = None
    /\ outcome = "success" =>
          /\ analysis # None /\ testCases # None
          /\ result[1].status = "success"
          /\ result[1].risk = Some(IF analysis[1].risk = None THEN Undefined
                                   ELSE analysis[1].risk[1].score)
          /\ result[1].testCaseCount = Some(GeneratedCount)
          /\ comment # None =>
                Len(comment[1].cases) = IF GeneratedCount < CommentCaseLimit
                                        THEN GeneratedCount ELSE CommentCaseLimit

\* six test cases were generated, the comment shows five, the comment post and
\* the email send failed, and the result counts six
C27_Witness ==
    /\ outcome = "success"
    /\ result[1].testCaseCount = Some(CommentCaseLimit + 1)
    /\ comment # None /\ Len(comment[1].cases) = CommentCaseLimit
    /\ \A op \in {"comment", "sendMail"} :
         \E i \in ExchangesOf(op) : requests[i].status # "ok"
    /\ SinkFailed

----------------------------------------------------------------------------
(* Termination: every awaited call is answered or fails, so the step of the
   stage the invocation is at is eventually taken *)

\* the events of the fair runs: the events that end at the gate, the event of
\* the end-to-end scenario, and the merged pull requests whose ticket key sits
\* in the branch name
LiveEvents ==
    {e \in GateEvents : EventGate(e) # "proceed"}
        \cup {E2EEvent}
        \cup {e \in PipelineEvents :
                /\ e.action = "closed"
                /\ e.pull_request[1].title = Some(TitleFix)
                /\ e.pull_request[1].base[1].repo # None}

InitLive == Init /\ payload \in LiveEvents

\* an awaited call that is answered or fails lets the stage's step be taken:
\* the step of the current stage is not put off forever
SpecLive == InitLive /\ [][Next]_vars /\ WF_vars(Next)

\* the terminal outcomes of an invocation
TerminalOutcomes == {"skipped", "success", "error"}

\* an invocation that has ended keeps its outcome and its value
OutcomeKept ==
    outcome \in TerminalOutcomes
        => (outcome' = outcome /\ result' = result /\ errKind' = errKind)

\* C28: provided every external call eventually responds or fails, every
\* invocation eventually ends, in exactly one of the outcomes skipped, success
\* and thrown error, which it keeps; it never waits forever between stages.
C28_Terminates ==
    /\ <>(outcome \in TerminalOutcomes)
    /\ [](outcome \in TerminalOutcomes \cup {"running"})
    /\ [][OutcomeKept]_vars

\* an invocation that went through every stage and ended
C28_Witness ==
    /\ outcome = "success"
    /\ pc = "return"
    /\ \A op \in ExternalOps : Cardinality(ExchangesOf(op)) = 1
    /\ \A i \in 1..Len(requests) : requests[i].status = "ok"

----------------------------------------------------------------------------
(* The project tree: getGitHubTree over the answers of the tree endpoint *)

MaxTreeShort == 3
MaxTreeOver == 2

\* the kinds of entry the recursive tree listing holds: a file of the agent's
\* own directory, a directory, a file, a submodule, and the agent's directory
\* itself (whose path does not start with 'ImpactX_Agent/')
EntryKinds == 0..4

\* the i-th upstream entry, of kind c
EntryAt(c, i) ==
    CASE c = 0 -> [path |-> <<"ImpactX_Agent/", ToString(i)>>, type |-> "blob"]
      [] c = 1 -> [path |-> <<"app", ToString(i)>>, type |-> "tree"]
      [] c = 2 -> [path |-> <<"app", "/", ToString(i)>>, type |-> "blob"]
      [] c = 3 -> [path |-> <<"lib", ToString(i)>>, type |-> "commit"]
      [] OTHER -> [path |-> <<"ImpactX_Agent", ToString(i)>>, type |-> "tree"]

\* every listing of at most MaxTreeShort entries
ShortTrees ==
    UNION { { [i \in 1..n |-> EntryAt(c[i], i)] : c \in [1..n -> EntryKinds] } :
              n \in 0..MaxTreeShort }

\* a listing of n entries whose first k entries, and the entry at the cap when
\* atCap, lie in the agent's own directory
LongTree(n, k, atCap) ==
    [i \in 1..n |-> IF i <= k \/ (atCap /\ i = TreeLimit)
                    THEN EntryAt(0, i)
                    ELSE EntryAt(1 + (i % 4), i)]

\* listings around the cap
LongTrees ==
    { LongTree(n, k, c) :
        n \in (TreeLimit - 1)..(TreeLimit + MaxTreeOver + 1),
        k \in 0..MaxTreeOver, c \in BOOLEAN }

\* the JSON bodies of the tree endpoint: with and without the tree member
TreeBodies ==
    {[tree |-> None]} \cup {[tree |-> Some(u)] : u \in ShortTrees \cup LongTrees}

\* the state of an invocation right before agent.js:111
InitTree ==
    /\ payload = E2EEvent
    /\ pc = "tree"
    /\ outcome = "running"
    /\ errKind = "none"
    /\ result = None
    /\ config = Some(FullEnv)
    /\ jiraKey = None
    /\ jiraTicket = None
    /\ diff = DiffPlain
    /\ tree = None
    /\ analysis = None
    /\ testCases = None
    /\ comment = None
    /\ email = None
    /\ sync = None
    /\ sinks = NoSinks
    /\ peer = None
    /\ calls = <<"getGitHubDiff">>
    /\ requests = << Exchange("github", "compare", <<>>, "ok", None) >>

\* agent.js:111 with getGitHubTree, impactLogic.js:25-40, the answer's body
\* being any of TreeBodies
FetchTreeOf ==
    /\ pc = "tree" /\ outcome = "running"
    /\ calls' = Append(calls, "getGitHubTree")
    /\ \E st \in Statuses :
         \E body \in IF st = "ok" THEN TreeBodies ELSE {[tree |-> None]} :
           /\ requests' = Append(requests,
                 Exchange("github", "tree", <<>>, st,
                          IF st = "ok" THEN Some(body) ELSE None))
           /\ IF TreeThrows(st) = "none"
              THEN /\ tree' = IF st = "ok"
                              THEN Some(TreeOf(IF body.tree = None THEN <<>>
                                               ELSE body.tree[1]))
                              ELSE None
                   /\ Goto(StageAfter("tree"))
              ELSE /\ Throw(TreeThrows(st))
                   /\ UNCHANGED tree
    /\ UNCHANGED <<payload, config, jiraKey, jiraTicket, diff, analysis, testCases,
                   comment, email>>
    /\ UNCHANGED <<sync, sinks, peer>>

NextTree == FetchTreeOf

SpecTree == InitTree /\ [][NextTree]_vars

\* the tree endpoint has answered 2xx and getGitHubTree has returned
TreeReturned ==
    /\ pc = StageAfter("tree")
    /\ requests[Len(requests)].op = "tree"
    /\ requests[Len(requests)].status = "ok"

\* the entries the endpoint listed, in its order
Listed ==
    LET body == requests[Len(requests)].reply[1]
    IN  IF body.tree = None THEN <<>> ELSE body.tree[1]

\* the positions of the listed entries outside the agent's own directory
KeptPositions == {i \in 1..Len(Listed) : ~UnderAgentDir(Listed[i].path)}

\* how many kept entries are listed at or before position i
KeptRank(i) == Cardinality({j \in KeptPositions : j <= i})

\* C29: on a successful response the project tree has at most 300 entries, none
\* under the agent's own directory, every entry typed directory when the
\* upstream type is tree and file otherwise, and it is the first 300 of the
\* non-excluded upstream entries in upstream order.
C29_ProjectTree ==
    TreeReturned =>
        /\ tree # None
        /\ Len(tree[1]) <= TreeLimit
        /\ \A k \in 1..Len(tree[1]) : ~UnderAgentDir(tree[1][k].path)
        /\ Len(tree[1]) = IF Cardinality(KeptPositions) < TreeLimit
                          THEN Cardinality(KeptPositions) ELSE TreeLimit
        /\ \A i \in KeptPositions :
             KeptRank(i) <= TreeLimit =>
               /\ tree[1][KeptRank(i)].path = Listed[i].path
               /\ tree[1][KeptRank(i)].type =
                    IF Listed[i].type = "tree" THEN "directory" ELSE "file"

\* a listing with more than 300 entries outside the agent's directory and two
\* inside it before them: the tree holds 300 entries, the last of them the
\* listing's 302nd, and a submodule entry is typed file
C29_Witness ==
    /\ TreeReturned
    /\ Len(Listed) > TreeLimit + MaxTreeOver
    /\ Cardinality(KeptPositions) > TreeLimit
    /\ UnderAgentDir(Listed[1].path)
    /\ Len(tree[1]) = TreeLimit
    /\ tree[1][TreeLimit].path = Listed[TreeLimit + MaxTreeOver].path
    /\ \E k \in 1..Len(tree[1]) :
         /\ tree[1][k].type = "file"
         /\ Listed[k + MaxTreeOver].type = "commit"

----------------------------------------------------------------------------
(* The document conversion of postJiraComment, impactLogic.js:288-345 *)

MaxLineLen == 6

\* the characters of the comment bodies: the marker character, a letter, a
\* blank and the line break
DocChars == {"*", "x", " ", "\n"}

IsSpace(c) == c \in {" ", "\n"}

\* String.prototype.trim
trim(s) ==
    LET inked == {i \in 1..Len(s) : ~IsSpace(s[i])}
    IN  IF inked = {} THEN <<>>
        ELSE SubSeq(s, CHOOSE a \in inked : \A i \in inked : a <= i,
                       CHOOSE b \in inked : \A i \in inked : i <= b)

RECURSIVE NonStarRunEnd(_, _)
\* [^*]+ : the first position at or after i that holds an asterisk, or the end
NonStarRunEnd(s, i) ==
    IF i <= Len(s) /\ s[i] # "*" THEN NonStarRunEnd(s, i + 1) ELSE i

\* /\*\*([^*]+)\*\*/ matches with its first character at position i
BoldAt(s, i) ==
    /\ i + 1 <= Len(s) /\ s[i] = "*" /\ s[i + 1] = "*"
    /\ LET e == NonStarRunEnd(s, i + 2)
       IN  e > i + 2 /\ e + 1 <= Len(s) /\ s[e] = "*" /\ s[e + 1] = "*"

RECURSIVE NextBold(_, _)
\* boldRegex.exec(text) from lastIndex: the position of the leftmost match at
\* or after from, 0 when there is none
NextBold(s, from) ==
    IF from > Len(s) THEN 0
    ELSE IF BoldAt(s, from) THEN from
    ELSE NextBold(s, from + 1)

\* one text run: { type: "text", text } with or without the strong mark
Run(text, strong) == [text |-> text, strong |-> strong]

RECURSIVE ScanWholeMatch(_, _)
\* variant: the strong run holds match[0], the span with its markers
ScanWholeMatch(text, lastIndex) ==
    LET i == NextBold(text, lastIndex)
    IN  IF i = 0
        THEN IF lastIndex <= Len(text)
             THEN << Run(SubSeq(text, lastIndex, Len(text)), FALSE) >>
             ELSE <<>>
        ELSE LET e == NonStarRunEnd(text, i + 2)
             IN  (IF i > lastIndex
                  THEN << Run(SubSeq(text, lastIndex, i - 1), FALSE) >>
                  ELSE <<>>)
                 \o << Run(SubSeq(text, i, e + 1), TRUE) >>
                 \o ScanWholeMatch(text, e + 2)

RECURSIVE Scan(_, _)
\* impactLogic.js:305-316: the parts pushed by the exec loop from lastIndex
\* (1-based here) and by the test after it
Scan(text, lastIndex) ==
    LET i == NextBold(text, lastIndex)
    IN  IF i = 0
        THEN IF lastIndex <= Len(text)
             THEN << Run(SubSeq(text, lastIndex, Len(text)), FALSE) >>
             ELSE <<>>
        ELSE LET e == NonStarRunEnd(text, i + 2)
             IN  (IF i > lastIndex
                  THEN << Run(SubSeq(text, lastIndex, i - 1), FALSE) >>
                  ELSE <<>>)
                 \o << Run(SubSeq(text, i + 2, e - 1), TRUE) >>
                 \o Scan(text, e + 2)

\* impactLogic.js:296-322: the runs of the paragraph made of one line
LineParts(line) ==
    LET text == trim(line)
        parts == Scan(text, 1)
    IN  IF Len(parts) = 0 THEN << Run(text, FALSE) >> ELSE parts

RECURSIVE NewlineRunEnd(_, _)
NewlineRunEnd(s, i) ==
    IF i <= Len(s) /\ s[i] = "\n" THEN NewlineRunEnd(s, i + 1) ELSE i

RECURSIVE SplitParagraphs(_, _, _)
\* commentBody.split(/\n\n+/): the pieces from position i on, cur being the
\* piece read so far
SplitParagraphs(s, i, cur) ==
    IF i > Len(s) THEN << cur >>
    ELSE IF s[i] = "\n" /\ NewlineRunEnd(s, i) > i + 1
    THEN << cur >> \o SplitParagraphs(s, NewlineRunEnd(s, i), <<>>)
    ELSE SplitParagraphs(s, i + 1, Append(cur, s[i]))

RECURSIVE SplitLines(_, _, _)
\* para.split('\n')
SplitLines(s, i, cur) ==
    IF i > Len(s) THEN << cur >>
    ELSE IF s[i] = "\n" THEN << cur >> \o SplitLines(s, i + 1, <<>>)
    ELSE SplitLines(s, i + 1, Append(cur, s[i]))

\* p => p.trim()
NonBlank(s) == Len(trim(s)) > 0

\* impactLogic.js:289 and 293: the non-blank lines of the non-blank paragraphs
LinesOf(body) ==
    LET paras == SelectSeq(SplitParagraphs(body, 1, <<>>), NonBlank)
        linesOf == [k \in 1..Len(paras) |->
                      SelectSeq(SplitLines(paras[k], 1, <<>>), NonBlank)]
        flat[k \in 0..Len(paras)] ==
            IF k = 0 THEN <<>> ELSE flat[k - 1] \o linesOf[k]
    IN  flat[Len(paras)]

\* variant: no fallback paragraph when no line is left
ToDocumentNoFallback(body) ==
    LET lines == LinesOf(body)
    IN  [k \in 1..Len(lines) |-> LineParts(lines[k])]

\* impactLogic.js:288-345: the content of the document, one paragraph (here its
\* runs) per line, and the fallback paragraph when there is none
ToDocument(body) ==
    LET lines == LinesOf(body)
    IN  IF Len(lines) = 0 THEN << << Run(body, FALSE) >> >>
        ELSE [k \in 1..Len(lines) |-> LineParts(lines[k])]

SpecExample == <<"*", "*", "x", "*", "*", " ", "y">>
TwoSpans == <<"*", "*", "x", "*", "*", "*", "*", "y", "*", "*">>
StepLine == <<" ", " ", " ", "1", ".", " ", "*", "*", "x", "*", "*", " ", "s">>

\* every text of at most MaxLineLen characters
RECURSIVE TextsUpTo(_)
TextsUpTo(n) ==
    IF n = 0 THEN {<<>>}
    ELSE LET shorter == TextsUpTo(n - 1)
         IN  shorter \cup {Append(t, c) : t \in {u \in shorter : Len(u) = n - 1},
                                          c \in DocChars}

\* the comment bodies handed to postJiraComment
Bodies == TextsUpTo(MaxLineLen) \cup {SpecExample, TwoSpans, StepLine}

\* the state at the call of postJiraComment, agent.js:213, for a comment body
\* and the URL of the test (tests/impactLogic.test.js:59)
InitDoc ==
    /\ payload = E2EEvent
    /\ pc = "post"
    /\ outcome = "running"
    /\ errKind = "none"
    /\ result = None
    /\ config = Some(FullEnv)
    /\ jiraKey = Some(<<"A", "-", "1">>)
    /\ jiraTicket = None
    /\ diff = DiffPlain
    /\ tree = None
    /\ analysis = None
    /\ testCases = None
    /\ comment \in {Some(b) : b \in Bodies}
    /\ email = None
    /\ sync = None
    /\ sinks = NoSinks
    /\ peer = None
    /\ calls = <<>>
    /\ requests = <<>>

\* postJiraComment, impactLogic.js:270-372, on the body held in comment
PostJiraComment ==
    /\ pc = "post" /\ outcome = "running"
    /\ calls' = Append(calls, "postJiraComment")
    /\ \E st \in Statuses, targetUrl \in {TargetUrl(JiraUrlGood, jiraKey[1])} :
         LET ex == CommentExchange(targetUrl, ToDocument(comment[1]), st)
         IN  /\ requests' = Append(requests, ex[1])
             /\ IF PostThrows(st) = "none" THEN Goto("posted")
                ELSE Throw(PostThrows(st))
    /\ UNCHANGED <<payload, config, jiraKey, jiraTicket, diff, tree, analysis,
                   testCases, comment, email>>
    /\ UNCHANGED <<sync, sinks, peer>>

NextDoc == PostJiraComment

SpecDoc == InitDoc /\ [][NextDoc]_vars

\* the body was one non-blank line and its document has been sent
OneLineSent ==
    /\ Len(requests) = 1
    /\ NonBlank(comment[1])
    /\ \A i \in 1..Len(comment[1]) : comment[1][i] # "\n"

\* the runs of the paragraph of that line
SentRuns == requests[1].arg.body[1]

RECURSIVE WithMarkers(_)
\* the runs written back as text, every strong run between double asterisks
WithMarkers(runs) ==
    IF Len(runs) = 0 THEN <<>>
    ELSE (IF runs[1].strong THEN <<"*", "*">> \o runs[1].text \o <<"*", "*">>
          ELSE runs[1].text) \o WithMarkers(Tail(runs))

\* the text holds a span delimited by a pair of double asterisks
HasSpan(s) == \E i \in 1..Len(s) : BoldAt(s, i)

\* what the statement says of the runs of a line, whose text is text: every
\* strong run is a span without its markers, the plain runs are the text
\* between the spans, the runs written back with markers give the text, and a
\* text without a span is one plain run
RunsOf(text, runs) ==
    /\ Len(requests[1].arg.body) = 1
    /\ \A k \in 1..Len(runs) :
         /\ Len(runs[k].text) > 0
         /\ runs[k].strong => \A i \in 1..Len(runs[k].text) : runs[k].text[i] # "*"
         /\ ~runs[k].strong => ~HasSpan(runs[k].text)
    /\ WithMarkers(runs) = text
    /\ ~HasSpan(text) => runs = << Run(text, FALSE) >>
    /\ comment[1] = SpecExample
         => runs = << Run(<<"x">>, TRUE), Run(<<" ", "y">>, FALSE) >>

\* C30 as stated: the runs of one line alternate between plain and strong and
\* their texts are those of the line itself with the matched markers removed.
C30_LineRunsAsStated ==
    OneLineSent =>
        /\ RunsOf(comment[1], SentRuns)
        /\ \A k \in 1..(Len(SentRuns) - 1) : SentRuns[k].strong # SentRuns[k + 1].strong

\* C30: the conversion of one line emits plain and strong runs in original
\* order, never two plain runs in a row: each span delimited by a pair of
\* double asterisks becomes one strong run holding the span text without the
\* markers, the text between spans becomes plain runs, the concatenation of
\* the run texts is the trimmed line with the matched markers removed, and a
\* line without bold markers yields exactly one plain run; "**x** y" yields
\* strong "x" then plain " y".
C30_LineRuns ==
    OneLineSent =>
        /\ RunsOf(trim(comment[1]), SentRuns)
        /\ \A k \in 1..(Len(SentRuns) - 1) : SentRuns[k].strong \/ SentRuns[k + 1].strong

\* an indented line with a span inside it: a plain run without the indent, the
\* strong run, a plain run
C30_Witness ==
    /\ OneLineSent
    /\ comment[1] = StepLine
    /\ Len(SentRuns) = 3
    /\ SentRuns[1] = Run(<<"1", ".", " ">>, FALSE)
    /\ SentRuns[2] = Run(<<"x">>, TRUE)
    /\ SentRuns[3] = Run(<<" ", "s">>, FALSE)

----------------------------------------------------------------------------
(* The converted document is never empty *)

\* a document has been sent for the comment body
DocumentSent == pc \in {"post", "posted"} /\ Len(requests) = 1

\* the paragraphs of the document sent, each the sequence of its runs
SentDocument == requests[1].arg.body

\* the body is empty or holds only blanks and line breaks
BlankBody == \A i \in 1..Len(comment[1]) : IsSpace(comment[1][i])

\* C31: the converted document has at least one paragraph and every paragraph
\* has at least one text run; for an empty or whitespace-only body it is exactly
\* one paragraph with a single plain run holding the raw input verbatim.
C31_DocumentNeverEmpty ==
    DocumentSent =>
        /\ Len(SentDocument) >= 1
        /\ \A k \in 1..Len(SentDocument) : Len(SentDocument[k]) >= 1
        /\ BlankBody => SentDocument = << << Run(comment[1], FALSE) >> >>

\* a body of a blank, two line breaks and a blank: no paragraph is left after
\* the filters and the fallback paragraph holds the four characters
C31_Witness ==
    /\ DocumentSent
    /\ comment[1] = <<" ", "\n", "\n", " ">>
    /\ SentDocument = << << Run(<<" ", "\n", "\n", " ">>, FALSE) >> >>

----------------------------------------------------------------------------
(* The segments of a diff: header line and body *)

\* the texts of the segment diffs: the marker, a path outside the agent's
\* directory, the line break, and a path of the agent's directory on the old
\* and on the new side
SegTokens == {DiffMarker, "a/app/Main.java", "\n",
              "a/ImpactX_Agent/agent.js", "b/ImpactX_Agent/agent.js"}

SegDiffs == SeqsUpTo(SegTokens, MaxDiffLen)

\* the state of an invocation right before agent.js:113, for every diff of
\* SegDiffs as the answer of the compare endpoint
InitSeg ==
    /\ payload = E2EEvent
    /\ pc = "impact"
    /\ outcome = "running"
    /\ errKind = "none"
    /\ result = None
    /\ config = Some(FullEnv)
    /\ jiraKey = None
    /\ jiraTicket = None
    /\ diff \in SegDiffs
    /\ tree = Some(TreeOf(UpstreamTree))
    /\ analysis = None
    /\ testCases = None
    /\ comment = None
    /\ email = None
    /\ sync = None
    /\ sinks = NoSinks
    /\ peer = None
    /\ calls = <<"getGitHubDiff", "getGitHubTree">>
    /\ requests = << Exchange("github", "compare", <<>>, "ok", None),
                     Exchange("github", "tree", <<>>, "ok", None) >>

SpecSeg == InitSeg /\ [][NextDiff]_vars

\* the header of a segment: its text up to the first line break
HeaderOf(seg) ==
    LET breaks == {i \in 1..Len(seg) : seg[i] = "\n"}
    IN  IF breaks = {} THEN seg
        ELSE SubSeq(seg, 1, (CHOOSE b \in breaks : \A i \in breaks : b <= i) - 1)

\* the segment's header names the agent's directory on either side
HeaderReferencesSelf(seg) ==
    \E i \in 1..Len(HeaderOf(seg)) : HeaderOf(seg)[i] \in SelfTokens

\* a non-blank segment whose header does not name the agent's directory
KeepByHeader(seg) == TrimNonEmpty(seg) /\ ~HeaderReferencesSelf(seg)

\* C32: the filter discards a segment if and only if its header references the
\* agent's own directory on either side; every other non-blank segment, one
\* whose body merely mentions the directory included, is retained verbatim and
\* in original order, in the diff text of both prompts.
C32_FilterByHeader ==
    \A i \in ModelCalls :
        SelectSeq(split(requests[i].arg.diff), TrimNonEmpty)
            = SelectSeq(split(diff), KeepByHeader)

----------------------------------------------------------------------------
(* What the composed comment holds *)

\* the generated test cases, [] when the member is absent
GeneratedCases ==
    IF testCases[1].testCases = None THEN <<>> ELSE testCases[1].testCases[1]

\* the steps of a generated case, [] when the member is absent
StepsOf(tc) == IF tc.steps = None THEN <<>> ELSE tc.steps[1]

\* C33: the composed comment lists at most the first five generated test
\* cases, in generated order, each with its steps numbered from 1; it holds the
\* requirements-alignment block exactly when the analysis has a
\* requirementsAlignment value, and its header is the post-merge header exactly
\* when the event action is closed.
C33_CommentContent ==
    comment # None =>
        LET shown == comment[1].cases
        IN  /\ Len(shown) <= CommentCaseLimit
            /\ Len(shown) = IF Len(GeneratedCases) < CommentCaseLimit
                            THEN Len(GeneratedCases) ELSE CommentCaseLimit
            /\ \A i \in 1..Len(shown) :
                 /\ shown[i].title = GeneratedCases[i].title
                 /\ shown[i].priority = GeneratedCases[i].priority
                 /\ shown[i].expected = GeneratedCases[i].expectedResult
                 /\ Len(shown[i].steps) = Len(StepsOf(GeneratedCases[i]))
                 /\ \A j \in 1..Len(shown[i].steps) :
                      /\ shown[i].steps[j].n = j
                      /\ shown[i].steps[j].text = StepsOf(GeneratedCases[i])[j]
            /\ (comment[1].alignment # None)
                  <=> (analysis[1].requirementsAlignment # None)
            /\ (comment[1].header = "Post-Merge Analysis") <=> (payload.action = "closed")

\* six cases were generated for an opened pull request whose analysis has the
\* alignment value: the comment shows the first five, the first of them with
\* its two numbered steps, under the other header
C33_Witness ==
    /\ comment # None
    /\ payload.action = "opened"
    /\ comment[1].header = "Impact Analysis"
    /\ Len(GeneratedCases) = CommentCaseLimit + 1
    /\ Len(comment[1].cases) = CommentCaseLimit
    /\ Len(comment[1].cases[1].steps) = 2
    /\ comment[1].cases[1].steps[2].n = 2
    /\ comment[1].alignment # None

----------------------------------------------------------------------------
(* The issue a comment is posted to *)

\* a ticket URL whose host name ends in the word of the issue path
JiraUrlBrowseHost == <<"http", "s", ":", "/", "/", "code", "browse">>

\* environments with every service configured, for two ticket URLs
PostEnvs ==
    { MkEnv("ghtok", "gkey", [JiraFull EXCEPT !.jiraUrl = Some(u)], EmailFull) :
        u \in {JiraUrlGood, JiraUrlBrowseHost} }

\* merged pull requests with each of the texts of PrTexts
PostEvents ==
    { [action |-> "closed",
       pull_request |-> Some(PullRequest(Some(TRUE), Base("master", TRUE), TRUE, text)),
       repository |-> Repository] : text \in PrTexts }

\* the state of an invocation right before agent.js:74
InitPost ==
    /\ payload \in PostEvents
    /\ pc = "ticket"
    /\ outcome = "running"
    /\ errKind = "none"
    /\ result = None
    /\ config \in {Some(e) : e \in PostEnvs}
    /\ jiraKey = None
    /\ jiraTicket = None
    /\ diff = <<>>
    /\ tree = None
    /\ analysis = None
    /\ testCases = None
    /\ comment = None
    /\ email = None
    /\ sync = None
    /\ sinks = NoSinks
    /\ peer = None
    /\ calls = <<>>
    /\ requests = <<>>

NextPost ==
    \/ LoadTicket
    \/ FetchDiff
    \/ FetchTree
    \/ SummarizeImpact
    \/ GenerateTestCases
    \/ HandleJiraPosting

SpecPost == InitPost /\ [][NextPost]_vars

\* C34: the comment is posted to the comment endpoint of exactly the issue
\* whose key was detected from the pull request: the key of the ticket-context
\* load is the key of the comment request, which is the key detected, and the
\* host of the comment request is the host of the configured ticket URL.
C34_CommentOnDetectedIssue ==
    \A i \in ExchangesOf("comment") :
        /\ DetectJiraKey(pull_request) = Some(requests[i].arg.key)
        /\ jiraKey = Some(requests[i].arg.key)
        /\ \A j \in ExchangesOf("getIssue") :
             /\ requests[j].arg.key = requests[i].arg.key
             /\ requests[j].arg.host = requests[i].arg.host
        /\ requests[i].arg.host = hostMatch(conf.jiraUrl[1])[1].host

----------------------------------------------------------------------------
(* The single send of the email service *)

\* the sendMail exchanges of the invocation, in order
MailsSent == SelectSeq(requests, LAMBDA x : x.op = "sendMail")

\* the one sendMail call was rejected
SendFailed == Len(MailsSent) = 1 /\ MailsSent[1].status = "networkError"

\* C35: with the four email settings present, sendImpactEmail makes exactly one
\* sendMail call once it has returned, never a second one, addressed to
\* EMAIL_TO and with the pull-request number in the subject. A rejected
\* sendMail is caught inside sendImpactEmail: nothing is thrown for it, no other
\* send follows, and the invocation ends in success with the result of the
\* parsed outputs. The only error the email stage can raise is the one of the
\* report rendering, before any send, when the pull request has no base.repo
\* or head or a model reply parsed to null.
C35_SingleSendCaught ==
    (config # None /\ EmailConfigured(conf)) =>
        /\ Len(MailsSent) <= 1
        /\ (pc = "return" \/ (Done /\ outcome = "success")) => Len(MailsSent) = 1
        /\ \A i \in 1..Len(MailsSent) :
              /\ MailsSent[i].arg.to = conf.EMAIL_TO
              /\ MailsSent[i].arg.subject.number = pull_request.number
              /\ Count("sendImpactEmail") = 1
        /\ (pc = "email" /\ outcome = "error") =>
              /\ errKind = "TypeError" /\ MailsSent = <<>>
              /\ ~RenderEmail(conf, pull_request, analysis, testCases).ok
        /\ SendFailed =>
              /\ pc = "return"
              /\ Done => (outcome = "success"
                            /\ result = BuildResult(analysis, testCases).value)

\* a rejected send, and the invocation has ended in success
C35_Witness ==
    /\ config # None
    /\ EmailConfigured(conf)
    /\ SendFailed
    /\ MailsSent[1].arg.to = "to@x"
    /\ Count("sendImpactEmail") = 1
    /\ outcome = "success"

----------------------------------------------------------------------------
(* summarizeImpact called on its own, as the unit test calls it *)

\* impactLogic.js:199, the only URL summarizeImpact sends to
GroqEndpoint == "https://api.groq.com/openai/v1/chat/completions"

\* the URL the unit test expects, tests/impactLogic.test.js:47
OpenAIEndpoint == "https://api.openai.com/v1/chat/completions"

\* the URL an exchange with the language model went to
EndpointOf(x) == IF x.service = "groq" THEN GroqEndpoint ELSE "none"

\* the first argument: the key of the test, the key of the agent, or none
CallKeys == {"openai-key", "gkey", Undefined}

\* the positional arguments (groqKey, diff, structure, jiraTicket) of a call;
\* null and undefined arguments are None
CallArgs ==
    { [groqKey |-> k, diff |-> d, structure |-> s, jiraTicket |-> t] :
        k \in CallKeys,
        d \in {None, Some(DiffPlain), Some(DiffWithSelf)},
        s \in {None, Some(TreeOf(UpstreamTree))},
        t \in {None, Some(TicketInfo(<<"A", "-", "1">>))} }

InitCall ==
    /\ payload \in CallArgs
    /\ pc = "impact"
    /\ outcome = "running"
    /\ errKind = "none"
    /\ result = None
    /\ config = None
    /\ jiraKey = None
    /\ jiraTicket = None
    /\ diff = <<>>
    /\ tree = None
    /\ analysis = None
    /\ testCases = None
    /\ comment = None
    /\ email = None
    /\ sync = None
    /\ sinks = NoSinks
    /\ peer = None
    /\ calls = <<>>
    /\ requests = <<>>

\* summarizeImpact(groqKey, diff, structure, jiraTicket), impactLogic.js:115-211:
\* (diff || '') is filtered and cut, the request goes to the Groq URL when
\* groqKey is truthy, otherwise 'No Groq API Key provided' is thrown; the
\* content of the first choice is returned
CallSummarizeImpact ==
    /\ pc = "impact" /\ outcome = "running"
    /\ calls' = Append(calls, "summarizeImpact")
    /\ IF ~Truthy(payload.groqKey)
       THEN /\ Throw("ModelError")
            /\ UNCHANGED requests
       ELSE \E st \in Statuses :
              \E content \in IF st = "ok" THEN AnalysisAnswers ELSE {InvalidJson} :
                /\ requests' = Append(requests,
                      Exchange("groq", "impact",
                               ImpactPrompt(IF payload.diff = None THEN <<>>
                                            ELSE payload.diff[1],
                                            payload.structure, payload.jiraTicket),
                               st, IF st = "ok" THEN Some(content) ELSE None))
                /\ IF ModelThrows(st) # "none"
                   THEN Throw(ModelThrows(st))
                   ELSE ReturnValue("returned", Some(content))
    /\ UNCHANGED <<payload, data>>
    /\ UNCHANGED <<sync, sinks, peer>>

NextCall == CallSummarizeImpact

SpecCall == InitCall /\ [][NextCall]_vars

\* summarizeImpact('openai-key', null, ...) has returned or thrown
OpenAIKeyCallOver ==
    payload.groqKey = "openai-key" /\ payload.diff = None /\ outcome # "running"

\* C36: summarizeImpact called with an OpenAI key as its first argument and
\* null as its second sends its single chat-completion request to
\* https://api.openai.com/v1/chat/completions and, when the request is
\* answered, returns the content of the first choice.
C36_OpenAIEndpoint ==
    OpenAIKeyCallOver =>
        /\ Len(requests) = 1
        /\ EndpointOf(requests[1]) = OpenAIEndpoint
        /\ requests[1].status = "ok" =>
              (outcome = "returned" /\ result = requests[1].reply)

\* what the code does for that call: one request, to the Groq URL
OpenAIKeySentToGroq ==
    OpenAIKeyCallOver =>
        /\ Len(requests) = 1
        /\ EndpointOf(requests[1]) = GroqEndpoint
        /\ requests[1].status = "ok" =>
              (outcome = "returned" /\ result = requests[1].reply)

----------------------------------------------------------------------------
(* The gate comes before the configuration check *)

\* one of the three gate tests of agent.js:24, 30 and 36 is evaluated and fails
FailsGatePredicate(p) ==
    \/ p.action \notin {"opened", "synchronize", "reopened", "closed"}
    \/ /\ p.action = "closed"
       /\ p.pull_request # None
       /\ p.pull_request[1].merged # Some(TRUE)
    \/ /\ p.pull_request # None
       /\ p.pull_request[1].base # None
       /\ p.pull_request[1].base[1].ref \notin {"master", "main"}

\* C37: the gate is evaluated before the configuration is read: an event that
\* fails a gate test never leaves the gate, process.env is never read for it
\* (so no setting, present or missing, can matter), no configuration error is
\* raised and it ends with {status: 'skipped'}; a configuration error is raised
\* only at the configuration check, for an event that passed the gate.
C37_GateBeforeConfig ==
    /\ FailsGatePredicate(payload) =>
          /\ pc = "gate"
          /\ config = None
          /\ outcome \in {"running", "skipped"}
          /\ errKind = "none"
          /\ Done => result = SkippedResult
    /\ outcome = "skipped" => (pc = "gate" /\ config = None)
    /\ errKind = "ConfigurationError" =>
          (pc = "config" /\ EventGate(payload) = "proceed" /\ calls = <<>>)

\* a closed, unmerged pull request onto master was skipped
C37_Witness ==
    /\ payload.action = "closed"
    /\ payload.pull_request # None
    /\ payload.pull_request[1].merged = Some(FALSE)
    /\ payload.pull_request[1].base # None
    /\ payload.pull_request[1].base[1].ref = "master"
    /\ outcome = "skipped"
    /\ result = SkippedResult
    /\ config = None

----------------------------------------------------------------------------
(* Errors and the side effects of the sinks *)

\* a ticket comment was posted: the post was sent and answered 2xx
CommentPosted == \E i \in ExchangesOf("comment") : requests[i].status = "ok"

\* an email was sent: sendMail was called and resolved
EmailSent == \E i \in ExchangesOf("sendMail") : requests[i].status = "ok"

\* C38: no fatal error follows a sink side effect: once a ticket comment has
\* been posted the email stage is attempted and the invocation ends in success,
\* and an invocation that ends in a propagated error has posted no ticket
\* comment and sent no email.
C38_NoErrorAfterSink ==
    /\ outcome = "error" => (~CommentPosted /\ ~EmailSent)
    /\ (CommentPosted /\ Done) =>
          (outcome = "success" /\ Count("sendImpactEmail") = 1)

\* apart from the report rendering of a pull request without base.repo
NoErrorAfterSinkWithRepo ==
    (CommentPosted \/ EmailSent) =>
        (HasBaseRepo => C38_NoErrorAfterSink)

----------------------------------------------------------------------------
(* The filter on a diff that does not reference the agent's directory *)

\* no per-file segment of the raw diff holds a/ImpactX_Agent/ or b/ImpactX_Agent/
NoSelfSegment ==
    \A k \in 1..Len(split(diff)) : ~IncludesSelf(split(diff)[k])

\* the raw diff is a sequence of per-file segments, each one preceded by the
\* marker and none of them blank
MarkedSegments ==
    /\ Len(diff) > 0 /\ diff[1] = DiffMarker
    /\ \A k \in 2..Len(split(diff)) : TrimNonEmpty(split(diff)[k])

\* C39: for a diff of per-file segments none of which references the agent's
\* directory, the diff text embedded in each prompt is the raw diff unchanged:
\* every segment, the first one included, is still preceded by the marker.
C39_UnreferencedDiffUnchanged ==
    (NoSelfSegment /\ MarkedSegments) =>
        \A i \in ModelCalls : requests[i].arg.diff = diff

\* what the code embeds for such a diff: the raw diff without its first marker
FirstMarkerDropped ==
    (NoSelfSegment /\ MarkedSegments) =>
        \A i \in ModelCalls : requests[i].arg.diff = Tail(diff)

====
